---- MODULE Spec2Model ----
(***************************************************************************)
(* Model of the ingress side of the bridge: the Nostr hub (nostr_hub.py:   *)
(* user-set loader, add_relay, subscriber threads, handle), the task       *)
(* dispatcher create_task and the ATProto firehose commit handler.         *)
(*                                                                         *)
(* Strings that the code builds by concatenation (nostr: URIs, at:// URIs, *)
(* DIDs) are modelled as tuples of their parts.                            *)
(***************************************************************************)
EXTENDS Integers, Sequences, FiniteSets, TLC

VARIABLES
    nostr_pubkeys,          \* nostr_hub.nostr_pubkeys
    bridged_pubkeys,        \* nostr_hub.bridged_pubkeys
    tasks,                  \* calls made to the task queue, in order
    task_eta,               \* memcache per-(queue, user) rate limit counters
    now,                    \* util.now(), in seconds
    outcome,                \* return path taken by the last handler call
    follows,                \* stored app.bsky.graph.follow Objects, with their subject
    users,                  \* datastore: the User entities, by name
    clock,                  \* order of datastore writes and of loader starts
    pubkeys_loaded_at,      \* nostr_hub.pubkeys_loaded_at
    pubkeys_initialized,    \* nostr_hub.pubkeys_initialized (threading.Event)
    subscribed_relays,      \* nostr_hub.subscribed_relays (list)
    subscribed_relays_lock, \* nostr_hub.subscribed_relays_lock: its holder, or "free"
    started,                \* subscriber threads started so far, per relay
    thr,                    \* init and loader threads: position and locals
    sub,                    \* subscriber threads: position, locals, messages sent
    relay_store,            \* datastore: persisted since of each relay
    atproto_dids,           \* atproto_firehose.atproto_dids
    bridged_dids,           \* atproto_firehose.bridged_dids
    commits,                \* atproto_firehose.commits (queue of Ops)
    cursor_db,              \* datastore: the Cursor entity (cursor, updated)
    fh,                     \* firehose subscriber: position, in-memory cursor,
                            \* cursor of the last subscription URL
    user_handle,            \* user.handle_as('atproto')
    user_copies,            \* datastore: the user's copies
    obj_copies,             \* datastore: the copies of the user's profile object
    repos,                  \* arroba storage: status and commits of each repo
    plc,                    \* DIDs created at the PLC directory
    dns,                    \* the DNS zone's _atproto TXT records
    cf,                     \* create_for call: position, the user in memory,
                            \* the new DID
    objects,                \* datastore: the Objects, by id (stored, copies)
    repo_records,           \* arroba storage: the records of the sender's repo
    snd                     \* send call: calls so far, return value, events
                            \* published to the relay

pubkeyVars == <<nostr_pubkeys, bridged_pubkeys>>
taskVars == <<tasks, task_eta>>
loaderVars == <<users, clock, pubkeys_loaded_at, pubkeys_initialized, thr>>
relayVars == <<subscribed_relays, subscribed_relays_lock, started>>
subVars == <<sub, relay_store>>
hubVars == <<loaderVars, relayVars, subVars>>

didVars == <<atproto_dids, bridged_dids>>
firehoseVars == <<didVars, commits, cursor_db, fh>>
cfVars == <<user_handle, user_copies, obj_copies, repos, plc, dns, cf>>
sendVars == <<objects, repo_records, snd>>
atpVars == <<follows, firehoseVars, cfVars, sendVars>>

vars == <<pubkeyVars, taskVars, now, outcome, atpVars, hubVars>>

(***************************************************************************)
(* Bounds of the model.                                                    *)
(***************************************************************************)
MaxHandleTasks == 1

(***************************************************************************)
(* Program constants.                                                      *)
(***************************************************************************)
KIND_PROFILE == 0
KIND_NOTE == 1
KIND_DELETE == 5
KIND_REACTION == 7
KIND_UNSUPPORTED == 99
\* protocol.DELETE_TASK_DELAY, seconds
DELETE_TASK_DELAY == 60
\* memcache.PER_USER_TASK_RATES['receive'], seconds
PER_USER_TASK_RATE == 5

SUPPORTED_KINDS == {KIND_PROFILE, KIND_NOTE, KIND_DELETE, KIND_REACTION}
AUTHOR_FILTER_KINDS == SUPPORTED_KINDS \ {KIND_REACTION}

NoKind == 0 - 1
NoSchedule == 0 - 1
NoAuth == <<>>

(***************************************************************************)
(* Identities.  alice is bridged into Nostr from another protocol, bob is  *)
(* a native Nostr user who is bridged out, zed is a stranger.              *)
(***************************************************************************)
BridgedUsers == {"alice"}
NativeUsers == {"bob"}
Strangers == {"zed"}
Pubkeys == BridgedUsers \cup NativeUsers \cup Strangers

(***************************************************************************)
(* Nostr events, as the relay delivers them.  A missing field is "".       *)
(* id is "id_ok" when it is the hash of the event and sig is "sig_ok" when *)
(* it is a valid Schnorr signature of the id by pubkey.                    *)
(***************************************************************************)
NotADict == [isdict |-> FALSE, kind |-> NoKind, pubkey |-> "", id |-> "",
             sig |-> "", tags |-> {}, created_at |-> 0]

TagSets == {{}, {<<"p", "alice">>}, {<<"p", "zed">>}, {<<"e", "alice">>}}

EventShapes ==
    [isdict : {TRUE},
     kind : {KIND_NOTE, KIND_DELETE, KIND_UNSUPPORTED},
     pubkey : Pubkeys,
     id : {"id_ok", "id_wrong"},
     sig : {"sig_ok", "sig_bad"},
     tags : TagSets,
     created_at : {1}]

\* notes with every combination of author, id, signature and tags; deletes
\* and events of an unsupported kind with a good id and signature
WellFormedEvents ==
    {e \in EventShapes :
        /\ ~(e.id = "id_wrong" /\ e.sig = "sig_bad")
        /\ e.kind # KIND_NOTE =>
              /\ e.id = "id_ok" /\ e.sig = "sig_ok"
              /\ e.tags \in {{}, {<<"p", "alice">>}}}

MalformedEvents ==
    {NotADict,
     [isdict |-> TRUE, kind |-> NoKind, pubkey |-> "bob", id |-> "id_ok",
      sig |-> "sig_ok", tags |-> {}, created_at |-> 1],
     [isdict |-> TRUE, kind |-> KIND_NOTE, pubkey |-> "", id |-> "id_ok",
      sig |-> "sig_ok", tags |-> {<<"p", "alice">>}, created_at |-> 1],
     [isdict |-> TRUE, kind |-> KIND_NOTE, pubkey |-> "bob", id |-> "",
      sig |-> "sig_ok", tags |-> {}, created_at |-> 1],
     [isdict |-> TRUE, kind |-> KIND_NOTE, pubkey |-> "bob", id |-> "id_ok",
      sig |-> "", tags |-> {}, created_at |-> 1]}

HandleEvents == WellFormedEvents \cup MalformedEvents

\* what the task queue answers to a create_task call
Results == {"ok", "error", "ContextError"}

\* the queue is only asked when the handler gets as far as create_task
ResultsFor(path) == IF path = "create_task" THEN Results ELSE {"ok"}

(***************************************************************************)
(* granary.nostr helpers used by handle.                                   *)
(***************************************************************************)
verify(event) == event.id = "id_ok" /\ event.sig = "sig_ok"

bech32_prefix_for(event) ==
    IF event.kind = KIND_NOTE THEN "note"
    ELSE IF event.kind = KIND_PROFILE THEN "nprofile"
    ELSE "nevent"

id_to_uri(prefix, id) == <<"nostr:", prefix, id>>

uri_for(event) == id_to_uri(bech32_prefix_for(event), event.id)

\* hex ids and keys are the only ones id_to_uri can encode
is_hex(s) == s \in Pubkeys \cup {"id_ok", "id_wrong"}

(***************************************************************************)
(* common.create_task: the schedule time of a new task.                    *)
(***************************************************************************)
Max(a, b) == IF a >= b THEN a ELSE b

RateLimited(queue, authed_as) == queue = "receive" /\ authed_as # NoAuth

next_slot_for_unlimited(queue, authed_as) == now

next_slot_for(queue, authed_as) ==
    IF ~RateLimited(queue, authed_as) THEN now
    ELSE IF <<queue, authed_as>> \notin DOMAIN task_eta THEN now
    ELSE Max(now, task_eta[<<queue, authed_as>>] + PER_USER_TASK_RATE)

schedule_time_for(queue, authed_as, delay) ==
    LET eta == Max(now, next_slot_for(queue, authed_as)) + delay
    IN  IF eta > now THEN eta ELSE NoSchedule

task_eta_after(queue, authed_as) ==
    IF ~RateLimited(queue, authed_as) THEN task_eta
    ELSE [k \in DOMAIN task_eta \cup {<<queue, authed_as>>} |->
            IF k = <<queue, authed_as>> THEN next_slot_for(queue, authed_as)
            ELSE task_eta[k]]

NoParams == [field \in {} |-> 0]

create_task_at_head(queue, params, delay) ==
    LET authed_as == IF "authed_as" \in DOMAIN params THEN params.authed_as
                     ELSE NoAuth
    IN  /\ tasks' = <<params @@ [queue |-> queue, delay |-> delay, created |-> now,
                                schedule_time |->
                                    schedule_time_for(queue, authed_as, delay)]>>
                     \o tasks
        /\ task_eta' = task_eta_after(queue, authed_as)

\* create_task(queue, delay=None, **params); delay None is 0 seconds
create_task(queue, params, delay) ==
    LET authed_as == IF "authed_as" \in DOMAIN params THEN params.authed_as
                     ELSE NoAuth
    IN  /\ tasks' = Append(tasks,
              params @@ [queue |-> queue, delay |-> delay, created |-> now,
                         schedule_time |->
                             schedule_time_for(queue, authed_as, delay)])
        /\ task_eta' = task_eta_after(queue, authed_as)

(***************************************************************************)
(* nostr_hub.handle(event).  res is the task queue's answer, should the    *)
(* call reach create_task.                                                 *)
(***************************************************************************)
is_bad_event(event) ==
    ~(event.isdict /\ event.kind # NoKind /\ event.pubkey # ""
      /\ event.id # "" /\ event.sig # "")

mentions(event) == {tag[2] : tag \in {t \in event.tags : t[1] = "p"}}

is_relevant_author_only(event) == event.pubkey \in nostr_pubkeys

is_relevant(event) ==
    \/ event.pubkey \in nostr_pubkeys
    \/ mentions(event) \cap bridged_pubkeys # {}

uri_raises(event) == ~is_hex(event.id) \/ ~is_hex(event.pubkey)

handle_delay_always(event) == DELETE_TASK_DELAY

handle_delay(event) ==
    IF event.kind = KIND_DELETE THEN DELETE_TASK_DELAY ELSE 0

handle_authed_as_event_id(event) == id_to_uri("npub", event.id)

handle_authed_as(event) == id_to_uri("npub", event.pubkey)

handle_path_unverified(event) ==
    IF is_bad_event(event) THEN "ignoring bad event"
    ELSE IF ~is_relevant(event) THEN "not relevant"
    ELSE IF uri_raises(event) THEN "bad id or pubkey"
    ELSE "create_task"

handle_path(event) ==
    IF is_bad_event(event) THEN "ignoring bad event"
    ELSE IF ~is_relevant(event) THEN "not relevant"
    ELSE IF ~verify(event) THEN "bad id or sig"
    ELSE IF uri_raises(event) THEN "bad id or pubkey"
    ELSE "create_task"

handle(event, res) ==
    LET path == handle_path(event)
    IN  IF path # "create_task"
        THEN /\ outcome' = path
             /\ UNCHANGED taskVars
        ELSE /\ outcome' = CASE res = "ok" -> "enqueued"
                             [] res = "ContextError" -> "raised ContextError"
                             [] OTHER -> "reported error"
             /\ create_task("receive",
                            [id |-> uri_for(event), source_protocol |-> "nostr",
                             authed_as |-> handle_authed_as(event),
                             nostr |-> event],
                            handle_delay(event))

(***************************************************************************)
(* atproto_firehose.handle: one op popped from the commits queue.          *)
(***************************************************************************)
Dids == {<<"did:plc:", "user">>, <<"did:plc:", "bob">>}

SupportedCollections ==
    {"app.bsky.feed.post", "app.bsky.feed.like", "app.bsky.graph.follow",
     "app.bsky.graph.block"}
STORE_RECORD_TYPES == {"community.lexicon.payments.webMonetization"}
Collections ==
    {"app.bsky.feed.post", "app.bsky.graph.follow", "app.bsky.graph.block",
     "app.bsky.graph.listitem"}

Ops == [repo : Dids, action : {"create", "update", "delete"},
        collection : Collections, rkey : {"123"}, seq : {789},
        time : {"1900-02-04"}]

StoredFollows ==
    {[uri |-> <<"at://", <<"did:plc:", "user">>, "app.bsky.graph.follow", "123">>,
      subject |-> <<"did:", "bo:b">>]}

at_uri(op) == <<"at://", op.repo, op.collection, op.rkey>>

stored_follow(op) == {f \in follows : f.uri = at_uri(op)}

delete_verb_always_delete(op) == "delete"

delete_verb(op) ==
    IF op.collection = "app.bsky.graph.block" THEN "undo"
    ELSE IF op.collection = "app.bsky.graph.follow" THEN "stop-following"
    ELSE "delete"

delete_object(op) ==
    IF delete_verb(op) = "stop-following"
    THEN (CHOOSE f \in stored_follow(op) : TRUE).subject
    ELSE at_uri(op)

firehose_path(op) ==
    IF op.action = "account" THEN "account"
    ELSE IF op.action = "identity" THEN "create_task"
    ELSE IF op.collection \in STORE_RECORD_TYPES /\ op.action # "delete"
         THEN "stored record"
    ELSE IF op.collection \notin SupportedCollections THEN "unsupported type"
    ELSE IF op.action # "delete" THEN "create_task"
    ELSE IF delete_verb(op) = "stop-following" /\ stored_follow(op) = {}
         THEN "no stored follow"
    ELSE "create_task"

firehose_task(op) ==
    IF op.action = "identity"
    THEN [id |-> <<"at://", op.repo, "app.bsky.actor.profile", "self">>,
          source_protocol |-> "atproto", authed_as |-> op.repo,
          bsky |-> [type |-> "app.bsky.actor.profile"]]
    ELSE IF op.action # "delete"
    THEN [id |-> at_uri(op), source_protocol |-> "atproto",
          authed_as |-> op.repo, bsky |-> [type |-> op.collection],
          received_at |-> op.time]
    ELSE [id |-> Append(at_uri(op), delete_verb(op)),
          source_protocol |-> "atproto", authed_as |-> op.repo,
          our_as1 |-> [objectType |-> "activity", verb |-> delete_verb(op),
                       id |-> Append(at_uri(op), delete_verb(op)),
                       actor |-> op.repo, object |-> delete_object(op)]]

firehose_delay(op) == IF op.action = "delete" THEN DELETE_TASK_DELAY ELSE 0

firehose_handle(op, res) ==
    IF firehose_path(op) # "create_task"
    THEN /\ outcome' = firehose_path(op)
         /\ UNCHANGED taskVars
    ELSE /\ create_task("receive", firehose_task(op), firehose_delay(op))
         /\ outcome' = IF res = "ok" THEN "enqueued" ELSE "reported error"

(***************************************************************************)
(* atproto_firehose.subscribe: the frames of the relay's event stream, the *)
(* relevance filter in front of the commits queue, and the cursor.         *)
(***************************************************************************)
DidUser == <<"did:plc:", "user">>
DidBob == <<"did:plc:", "bob">>
DidAlice == <<"did:", "alice">>
DidEve == <<"did:", "eve">>
NoDid == <<>>
Repos == Dids \cup {DidAlice}

NoRecord == [type |-> "", subject |-> NoDid, parent |-> NoDid, root |-> NoDid,
             embed |-> NoDid, mention |-> NoDid]

Post == [NoRecord EXCEPT !.type = "app.bsky.feed.post"]

\* The DIDs a record's references point to are alice (bridged into
\* ATProto), user (a bridged Bluesky user) and eve (unknown).
Records ==
    {Post}
    \cup {[Post EXCEPT !.parent = d] : d \in {DidAlice, DidUser, DidEve}}
    \cup {[Post EXCEPT !.embed = d] : d \in {DidAlice, DidUser}}
    \cup {[Post EXCEPT !.mention = DidAlice],
          [Post EXCEPT !.parent = DidAlice, !.embed = DidAlice]}
    \cup {[NoRecord EXCEPT !.type = t, !.subject = d] :
            t \in {"app.bsky.feed.like", "app.bsky.graph.follow",
                   "app.bsky.graph.block"},
            d \in {DidAlice, DidEve}}
    \cup {[NoRecord EXCEPT !.type = t] :
            t \in STORE_RECORD_TYPES \cup {"app.bsky.graph.listitem"}}

\* A reply whose root alone is a bridged user's post.
IndirectReply == [Post EXCEPT !.root = DidAlice]

NoSeq == 0 - 1
Seqs == {1, 2}

Frame(t, repo, seq, action, record, poisoned) ==
    [t |-> t, repo |-> repo, seq |-> seq, action |-> action,
     record |-> record, poisoned |-> poisoned]

CommitFrames ==
    {Frame("#commit", repo, seq, action, record, FALSE) :
        repo \in Repos, seq \in Seqs, action \in {"create", "update"},
        record \in Records}
    \cup {Frame("#commit", DidUser, seq, "create", IndirectReply, FALSE) :
            seq \in Seqs}
    \cup {Frame("#commit", repo, seq, "delete", NoRecord, FALSE) :
            repo \in Repos, seq \in Seqs}

AccountFrames ==
    {Frame(t, repo, seq, "", NoRecord, FALSE) :
        t \in {"#account", "#identity"}, repo \in {DidUser, DidEve},
        seq \in Seqs}

PoisonedFrames ==
    {Frame("#commit", DidUser, seq, "create", Post, TRUE) : seq \in Seqs}

\* #info and #handle frames, and error frames (op -1): type, no sequence
\* number that the subscriber reads.
OtherFrames ==
    {Frame(t, NoDid, NoSeq, "", NoRecord, FALSE) : t \in {"#info", "error"}}

Frames == CommitFrames \cup AccountFrames \cup PoisonedFrames \cup OtherFrames

refs_bridged(record, fields) ==
    \E f \in fields : record[f] # NoDid /\ record[f] \in bridged_dids

by_bridged_author_never(frame) == FALSE

\* the bridge itself wrote the record
by_bridged_author(frame) == frame.repo \in bridged_dids

is_reply(record) == record.parent # NoDid \/ record.root # NoDid

relevant_from_ours_always(record) == TRUE

\* a record by a bridged Bluesky user
relevant_from_ours(record) ==
    IF record.type \in {"app.bsky.feed.like", "app.bsky.graph.follow",
                        "app.bsky.graph.block"}
    THEN refs_bridged(record, {"subject"})
    ELSE IF record.type = "app.bsky.feed.post" /\ is_reply(record)
         THEN record.parent \in bridged_dids \cup atproto_dids
         ELSE TRUE

\* a record by anyone else
relevant_from_other(record) ==
    refs_bridged(record, {"subject", "parent", "embed", "mention"})

\* what subscribe does with a frame that has a sequence number
subscribe_path(frame) ==
    IF frame.t # "#commit"
    THEN IF frame.repo \in atproto_dids THEN "queued" ELSE "unknown DID"
    ELSE IF by_bridged_author(frame) THEN "from bridged user"
    ELSE IF frame.action = "delete"
         THEN IF frame.repo \in atproto_dids THEN "queued" ELSE "delete by other"
    ELSE IF frame.record.type \notin SupportedCollections \cup STORE_RECORD_TYPES
         THEN "unsupported type"
    ELSE IF frame.repo \in atproto_dids
         THEN IF relevant_from_ours(frame.record) THEN "queued" ELSE "not relevant"
    ELSE IF relevant_from_other(frame.record) THEN "queued" ELSE "not relevant"

OpTime == "1900-02-04"

op_of(frame) ==
    [repo |-> frame.repo,
     action |-> IF frame.t = "#commit" THEN frame.action
                ELSE IF frame.t = "#account" THEN "account" ELSE "identity",
     collection |-> frame.record.type, rkey |-> "123", seq |-> frame.seq,
     time |-> OpTime, record |-> frame.record]

STORE_CURSOR_FREQ == 10
NoCursor == 0 - 1
NotLoaded == 0 - 2

FirehoseIdle ==
    /\ commits = <<>>
    /\ fh = [pc |-> "idle", cursor |-> NotLoaded, url |-> NoCursor,
             min_seq |-> 1, head |-> 0, raised |-> NoSeq]

FirehoseOff ==
    /\ atproto_dids = {}
    /\ bridged_dids = {}
    /\ cursor_db = [cursor |-> NoCursor, updated |-> 0]
    /\ FirehoseIdle

loaded_cursor_as_stored(stored) == stored

\* the Cursor entity's value as subscribe first loads it
loaded_cursor(stored) == IF stored # NoCursor THEN stored + 1 ELSE NoCursor

\* subscribe: load the cursor if this process has none yet, and connect
FhSubscribe ==
    /\ fh.pc = "idle"
    /\ LET cursor == IF fh.cursor = NotLoaded THEN loaded_cursor(cursor_db.cursor)
                     ELSE fh.cursor
       IN  fh' = [fh EXCEPT !.pc = "connected", !.cursor = cursor, !.url = cursor,
                            !.min_seq = IF cursor # NoCursor THEN cursor
                                        ELSE fh.head + 1,
                            !.raised = NoSeq]
    /\ outcome' = "subscribed"
    /\ UNCHANGED <<pubkeyVars, taskVars, now, follows, didVars, cfVars, sendVars, commits,
                   cursor_db, hubVars>>

cursor_after_previous(seq) == seq - 1

cursor_after(seq) == seq + 1

cursor_before_decode_unmoved(frame) == fh.cursor

\* the cursor is moved past a commit before the commit is decoded
cursor_before_decode(frame) == cursor_after(frame.seq)

flush_always == TRUE

flush_due == now - cursor_db.updated > STORE_CURSOR_FREQ

\* one frame read from the websocket
subscribe_frame(frame) ==
    IF frame.t \notin {"#commit", "#account", "#identity"}
    THEN /\ outcome' = "skipped frame"
         /\ UNCHANGED <<fh, cursor_db, commits>>
    ELSE /\ cursor_db' = IF flush_due
                         THEN [cursor |-> cursor_after(frame.seq), updated |-> now]
                         ELSE cursor_db
         /\ IF frame.poisoned
            THEN /\ outcome' = "raised RuntimeError"
                 /\ fh' = [fh EXCEPT !.pc = "idle", !.raised = frame.seq,
                                     !.cursor = cursor_before_decode(frame),
                                     !.min_seq = frame.seq + 1,
                                     !.head = Max(fh.head, frame.seq)]
                 /\ UNCHANGED commits
            ELSE /\ fh' = [fh EXCEPT !.cursor = cursor_after(frame.seq),
                                     !.min_seq = frame.seq + 1,
                                     !.head = Max(fh.head, frame.seq)]
                 /\ outcome' = subscribe_path(frame)
                 /\ IF subscribe_path(frame) = "queued"
                    THEN commits' = Append(commits, op_of(frame))
                    ELSE UNCHANGED commits

\* the relay sends the events from the requested cursor on, in order
FhRecvFrame(frame) ==
    /\ fh.pc = "connected"
    /\ frame.seq = NoSeq \/ frame.seq >= fh.min_seq
    /\ subscribe_frame(frame)
    /\ UNCHANGED <<pubkeyVars, taskVars, now, follows, didVars, cfVars, sendVars, hubVars>>

FhRecv(frames) == \E frame \in frames : FhRecvFrame(frame)

\* the socket fails or the relay closes it: subscribe returns, and the
\* caller subscribes again
FhDisconnect ==
    /\ fh.pc = "connected"
    /\ fh' = [fh EXCEPT !.pc = "idle"]
    /\ outcome' = "disconnected"
    /\ UNCHANGED <<pubkeyVars, taskVars, now, follows, didVars, cfVars, sendVars, commits,
                   cursor_db, hubVars>>

\* the process is replaced: its globals and its queue are gone, the
\* datastore and the relay's stream stay
FhRestart ==
    /\ fh.cursor # NotLoaded
    /\ fh' = [fh EXCEPT !.pc = "idle", !.cursor = NotLoaded, !.url = NoCursor,
                        !.raised = NoSeq]
    /\ commits' = <<>>
    /\ outcome' = "restarted"
    /\ UNCHANGED <<pubkeyVars, taskVars, now, follows, didVars, cfVars, sendVars, cursor_db, hubVars>>

\* atproto_firehose.handle takes the next op off the commits queue
FhHandle ==
    /\ commits # <<>>
    /\ \E res \in ResultsFor(firehose_path(Head(commits))) :
          firehose_handle(Head(commits), res)
    /\ commits' = Tail(commits)
    /\ UNCHANGED <<pubkeyVars, now, follows, didVars, cfVars, sendVars, cursor_db, fh, hubVars>>

(***************************************************************************)
(* ATProto.create_for(user), ATProto.set_dns and ATProto.remove_dns.       *)
(***************************************************************************)
SUPERDOMAIN == ".brid.gy"
ATPROTO_HANDLE_DOMAINS == {".bsky.social"}
DEBUG == FALSE
TOMBSTONED == "tombstoned"

\* handles, as name and domain
Handles ==
    {<<"alice.com.web", ".brid.gy">>, <<"alice", ".com">>,
     <<"alice", ".bsky.social">>}

\* repo.status None is an active repo; "none" is no repo
InactiveStatuses == {"deactivated", "takendown"}
Statuses == {"active", TOMBSTONED} \cup InactiveStatuses

MaxCreateCalls == 2
DidOld == <<"did:plc:", 0>>
ShadowDids == {<<"did:plc:", n>> : n \in 0..MaxCreateCalls}

Target(uri, protocol) == [uri |-> uri, protocol |-> protocol]
NostrCopy == Target(<<"nostr:", "npub", "alice">>, "nostr")
profile_uri(did) == <<"at://", did, "app.bsky.actor.profile", "self">>

atproto_copies(copies) ==
    {i \in 1..Len(copies) : copies[i].protocol = "atproto"}

\* user.get_copy(ATProto)
get_copy(copies) ==
    IF atproto_copies(copies) = {} THEN NoDid
    ELSE copies[CHOOSE i \in atproto_copies(copies) :
                    \A j \in atproto_copies(copies) : i <= j].uri

\* user.add('copies', target)
add(copies, target) ==
    IF \E i \in 1..Len(copies) : copies[i] = target THEN copies
    ELSE Append(copies, target)

dns_name(hdl) == <<"_atproto.", hdl, ".">>

remove_dns_nothing(zone, hdl) == zone

remove_dns(zone, hdl) ==
    IF DEBUG THEN zone ELSE {r \in zone : r.name # dns_name(hdl)}

set_dns(zone, hdl, did) ==
    IF DEBUG \/ hdl[2] \in ATPROTO_HANDLE_DOMAINS THEN zone
    ELSE remove_dns(zone, hdl) \cup {[name |-> dns_name(hdl), did |-> did]}

\* set_dns and remove_dns, DNS API call by DNS API call, for user_handle:
\* cf.pc is the call's position, cf.did its DID.  answers is whether the DNS
\* API answers the call or raises.
MaxDnsCalls == 3

skips_dns(hdl) == DEBUG \/ hdl[2] \in ATPROTO_HANDLE_DOMAINS

SetDnsStart(did) ==
    /\ cf.pc = "idle"
    /\ cf.calls < MaxDnsCalls
    /\ cf' = [cf EXCEPT !.calls = @ + 1, !.did = did,
                        !.pc = IF skips_dns(user_handle) THEN "idle"
                               ELSE "remove_dns"]
    /\ outcome' = IF skips_dns(user_handle) THEN "set_dns skipped"
                  ELSE "set_dns called"
    /\ UNCHANGED <<pubkeyVars, taskVars, now, follows, firehoseVars, sendVars,
                   user_handle, user_copies, obj_copies, repos, plc, dns, hubVars>>

\* set_dns: ATProto.remove_dns(handle)
SetDnsRemove(answers) ==
    /\ cf.pc = "remove_dns"
    /\ IF answers
       THEN /\ dns' = remove_dns(dns, user_handle)
            /\ cf' = [cf EXCEPT !.pc = "add_record"]
            /\ UNCHANGED outcome
       ELSE /\ cf' = [cf EXCEPT !.pc = "idle"]
            /\ outcome' = "set_dns raised"
            /\ UNCHANGED dns
    /\ UNCHANGED <<pubkeyVars, taskVars, now, follows, firehoseVars, sendVars,
                   user_handle, user_copies, obj_copies, repos, plc, hubVars>>

\* set_dns: changes.add_record_set(...); changes.create()
SetDnsAdd(answers) ==
    /\ cf.pc = "add_record"
    /\ cf' = [cf EXCEPT !.pc = "idle"]
    /\ IF answers
       THEN /\ dns' = dns \cup {[name |-> dns_name(user_handle), did |-> cf.did]}
            /\ outcome' = "set_dns returned"
       ELSE /\ outcome' = "set_dns raised"
            /\ UNCHANGED dns
    /\ UNCHANGED <<pubkeyVars, taskVars, now, follows, firehoseVars, sendVars,
                   user_handle, user_copies, obj_copies, repos, plc, hubVars>>

RemoveDns(answers) ==
    /\ cf.pc = "idle"
    /\ cf.calls < MaxDnsCalls
    /\ cf' = [cf EXCEPT !.calls = @ + 1]
    /\ IF answers
       THEN /\ dns' = remove_dns(dns, user_handle)
            /\ outcome' = "remove_dns returned"
       ELSE /\ outcome' = "remove_dns raised"
            /\ UNCHANGED dns
    /\ UNCHANGED <<pubkeyVars, taskVars, now, follows, firehoseVars, sendVars,
                   user_handle, user_copies, obj_copies, repos, plc, hubVars>>

reinstalls_dns_always(hdl) == TRUE

\* create_for installs the DNS record of a reactivated repo
reinstalls_dns(hdl) == hdl[2] = SUPERDOMAIN

fresh_did_reused == DidOld

\* did.create_plc
fresh_did ==
    <<"did:plc:", CHOOSE n \in 1..MaxCreateCalls :
                      /\ <<"did:plc:", n>> \notin plc
                      /\ \A k \in 1..(n - 1) : <<"did:plc:", k>> \in plc>>

CreateForIdle ==
    cf = [pc |-> "idle", copies |-> <<>>, did |-> NoDid, calls |-> 0]

CreateForOff ==
    /\ user_handle = <<"alice.com.web", ".brid.gy">>
    /\ user_copies = <<>>
    /\ obj_copies = <<>>
    /\ repos = [d \in ShadowDids |-> [status |-> "none", commits |-> 0]]
    /\ plc = {}
    /\ dns = {}
    /\ CreateForIdle

already_active_never(status) == FALSE

\* the repo exists and needs nothing
already_active(status) == status = "active"

\* create_for up to the creation of the new DID
CfStart ==
    /\ cf.pc \in {"idle", "done", "failed"}
    /\ cf.calls < MaxCreateCalls
    /\ LET copy_did == get_copy(user_copies)
           call == [cf EXCEPT !.calls = cf.calls + 1, !.copies = user_copies,
                              !.did = NoDid]
       IN  IF copy_did = NoDid
           THEN /\ cf' = [call EXCEPT !.pc = "create_plc"]
                /\ outcome' = "creating"
                /\ UNCHANGED <<taskVars, obj_copies, repos, dns>>
           ELSE IF already_active(repos[copy_did].status)
           THEN /\ cf' = [call EXCEPT !.pc = "done"]
                /\ outcome' = "noop"
                /\ UNCHANGED <<taskVars, obj_copies, repos, dns>>
           ELSE IF repos[copy_did].status = TOMBSTONED
           THEN /\ cf' = [call EXCEPT !.pc = "create_plc", !.copies = <<>>]
                /\ obj_copies' = <<>>
                /\ outcome' = "creating"
                /\ UNCHANGED <<taskVars, repos, dns>>
           ELSE /\ repos' = [repos EXCEPT ![copy_did].status = "active"]
                /\ create_task("atproto-commit", NoParams, 0)
                /\ dns' = IF reinstalls_dns(user_handle)
                          THEN set_dns(dns, user_handle, copy_did)
                          ELSE dns
                /\ cf' = [call EXCEPT !.pc = "done"]
                /\ outcome' = "reactivated"
                /\ UNCHANGED obj_copies
    /\ UNCHANGED <<pubkeyVars, now, follows, firehoseVars, sendVars, user_handle,
                   user_copies, plc, hubVars>>

CfCreatePlc ==
    /\ cf.pc = "create_plc"
    /\ plc' = plc \cup {fresh_did}
    /\ cf' = [cf EXCEPT !.pc = "set_dns", !.did = fresh_did]
    /\ UNCHANGED <<pubkeyVars, taskVars, now, outcome, follows, firehoseVars, sendVars,
                   user_handle, user_copies, obj_copies, repos, dns, hubVars>>

CfSetDns ==
    /\ cf.pc = "set_dns"
    /\ dns' = set_dns(dns, user_handle, cf.did)
    /\ cf' = [cf EXCEPT !.pc = "create_repo"]
    /\ UNCHANGED <<pubkeyVars, taskVars, now, outcome, follows, firehoseVars, sendVars,
                   user_handle, user_copies, obj_copies, repos, plc, hubVars>>

CfCreateRepo ==
    /\ cf.pc = "create_repo"
    /\ repos' = [repos EXCEPT ![cf.did] = [status |-> "active", commits |-> 0]]
    /\ cf' = [cf EXCEPT !.pc = "initial_commit"]
    /\ UNCHANGED <<pubkeyVars, taskVars, now, outcome, follows, firehoseVars, sendVars,
                   user_handle, user_copies, obj_copies, plc, dns, hubVars>>

\* arroba.server.storage.commit, and the repo's callback
commit(did) ==
    /\ repos' = [repos EXCEPT ![did].commits = repos[did].commits + 1]
    /\ create_task("atproto-commit", NoParams, 0)

CfInitialCommit ==
    /\ cf.pc = "initial_commit"
    /\ commit(cf.did)
    /\ cf' = [cf EXCEPT !.pc = "profile"]
    /\ UNCHANGED <<pubkeyVars, now, outcome, follows, firehoseVars, sendVars,
                   user_handle, user_copies, obj_copies, plc, dns, hubVars>>

CfProfile ==
    /\ cf.pc = "profile"
    /\ commit(cf.did)
    /\ obj_copies' = add(obj_copies, Target(profile_uri(cf.did), "atproto"))
    /\ cf' = [cf EXCEPT !.pc = "add_copy"]
    /\ UNCHANGED <<pubkeyVars, now, outcome, follows, firehoseVars, sendVars,
                   user_handle, user_copies, plc, dns, hubVars>>

CfAddCopy ==
    /\ cf.pc = "add_copy"
    /\ user_copies' = add(cf.copies, Target(cf.did, "atproto"))
    /\ cf' = [cf EXCEPT !.pc = "done", !.copies = user_copies']
    /\ outcome' = "created"
    /\ UNCHANGED <<pubkeyVars, taskVars, now, follows, firehoseVars, sendVars,
                   user_handle, obj_copies, repos, plc, dns, hubVars>>

\* the PLC directory, DNS, the datastore or the profile's conversion fails
CfRaise ==
    /\ cf.pc \in {"create_plc", "set_dns", "create_repo", "initial_commit",
                  "profile"}
    /\ cf' = [cf EXCEPT !.pc = "failed"]
    /\ outcome' = "raised"
    /\ UNCHANGED <<pubkeyVars, taskVars, now, follows, firehoseVars, sendVars,
                   user_handle, user_copies, obj_copies, repos, plc, dns, hubVars>>

\* Two callers of create_for: cf holds the locals of the one that runs, its
\* field other those of the one that waits; the scheduler swaps them.
locals(c) == [pc |-> c.pc, copies |-> c.copies, did |-> c.did, calls |-> c.calls]

CfSwitch ==
    /\ "other" \in DOMAIN cf
    /\ cf' = locals(cf.other) @@ [other |-> locals(cf)]
    /\ UNCHANGED <<pubkeyVars, taskVars, now, outcome, follows, firehoseVars,
                   sendVars, user_handle, user_copies, obj_copies, repos, plc,
                   dns, hubVars>>

\* between calls the repo of the user's copy is deactivated, taken down,
\* tombstoned or reactivated; a tombstoned repo stays tombstoned
RepoStatus ==
    \E status \in Statuses :
        /\ cf.pc \in {"idle", "done", "failed"}
        /\ get_copy(user_copies) # NoDid
        /\ repos[get_copy(user_copies)].status \notin {status, TOMBSTONED}
        /\ repos' = [repos EXCEPT ![get_copy(user_copies)].status = status]
        /\ outcome' = status
        /\ UNCHANGED <<pubkeyVars, taskVars, now, follows, firehoseVars, sendVars,
                       user_handle, user_copies, obj_copies, plc, dns, cf, hubVars>>

(***************************************************************************)
(* ATProto.send and Nostr.send.                                            *)
(***************************************************************************)
ObjIds == {"note", "follow", "block", "profile"}

NoActivity == [verb |-> "none"]

SendIdle ==
    snd = [calls |-> 0, result |-> "none", act |-> NoActivity,
           fault |-> "none", events |-> <<>>]

SendOff ==
    /\ objects = [o \in ObjIds |-> [stored |-> FALSE, copies |-> <<>>]]
    /\ repo_records = {}
    /\ SendIdle

MaxSendCalls == 2

CRUD_VERBS == {"post", "update", "delete", "undo"}
NoId == ""

\* an activity handed to send: its verb, the id and type of its object, the
\* object of that object (the blocked DID of a block), whether it is a DM
Activity(verb, object, type, subject, dm) ==
    [verb |-> verb, object |-> object, type |-> type, subject |-> subject,
     dm |-> dm]

Activities ==
    {Activity("post", "note", "note", NoDid, dm) : dm \in BOOLEAN}
    \cup {Activity(verb, "note", "note", NoDid, FALSE) :
             verb \in {"update", "delete", "undo", "flag"}}
    \cup {Activity(verb, "follow", "follow", NoDid, FALSE) :
             verb \in {"follow", "delete", "undo", "stop-following"}}
    \cup {Activity(verb, "block", "block", DidBob, FALSE) :
             verb \in {"block", "delete", "undo"}}
    \cup {Activity("undo", NoId, "block", subject, FALSE) :
             subject \in {DidBob, NoDid}}
    \cup {Activity("delete", object, "person", NoDid, FALSE) :
             object \in {"actor", NoId}}

\* what can fail during one call of an activity of this verb
faults_for(act) ==
    {"none", "conversion failed"}
    \cup (IF act.object \in {"note", "actor"}
          THEN {"target PDS not us", "no actor key", "DID doc PDS not us"}
          ELSE {})
    \cup (IF act.verb = "stop-following" THEN {"no Follower"} ELSE {})
    \cup (IF act.verb = "flag" THEN {"service error"} ELSE {})
    \cup (IF act.dm
          THEN {"service error", "recipient has disabled incoming messages"}
          ELSE {})
    \cup (IF act.object = "actor" THEN {"DNS error"} ELSE {})
    \cup (IF act.object \in {"note", NoId}
          THEN {"InactiveRepo", "datastore error"} ELSE {})

at_uri_of(did, collection, rkey) == <<"at://", did, collection, rkey>>

\* parse_at_uri
parse_at_uri(uri) == [did |-> uri[2], collection |-> uri[3], rkey |-> uri[4]]

\* the id of the base object: the activity's object for the CRUD verbs, the
\* stored follow for stop-following, else the activity itself
base_id_of(act) ==
    IF act.verb \in CRUD_VERBS THEN act.object
    ELSE IF act.verb = "stop-following" THEN "follow"
    ELSE act.type

undo_block_without_id(act) ==
    act.verb = "undo" /\ act.type = "block" /\ act.object = NoId

\* base_obj is not None
has_base_obj(act) ==
    IF undo_block_without_id(act) THEN TRUE
    ELSE IF act.verb \in {"delete", "undo", "stop-following"}
    THEN base_id_of(act) \in ObjIds /\ objects[base_id_of(act)].stored
    ELSE TRUE

base_copies(act) ==
    IF base_id_of(act) \in ObjIds THEN objects[base_id_of(act)].copies
    ELSE <<>>

\* to_cls.convert(base_obj): the $type of the record, or "" for no record
record_type(act, fault) ==
    IF ~has_base_obj(act) \/ fault = "conversion failed" THEN ""
    ELSE IF act.verb = "flag" THEN "com.atproto.moderation.createReport#input"
    ELSE IF act.dm THEN "chat.bsky.convo.defs#messageInput"
    ELSE IF act.type = "note" THEN "app.bsky.feed.post"
    ELSE IF act.type = "follow" THEN "app.bsky.graph.follow"
    ELSE IF act.type = "block" THEN "app.bsky.graph.block"
    ELSE "app.bsky.actor.profile"

\* the verb after stop-following has become delete
write_verb(act) == IF act.verb = "stop-following" THEN "delete" ELSE act.verb

modifies(act) == write_verb(act) \in {"update", "delete", "undo"}

\* next_tid()
next_tid == snd.calls + 1

\* the collection and rkey of the write
write_key(act, fault) ==
    IF modifies(act)
    THEN <<parse_at_uri(get_copy(base_copies(act))).collection,
           parse_at_uri(get_copy(base_copies(act))).rkey>>
    ELSE <<record_type(act, fault), next_tid>>

copy_elsewhere_repo_only(copy, did, type) == parse_at_uri(copy).did # did

\* if copy_did != did or (type and collection != type)
copy_elsewhere(copy, did, type) ==
    \/ parse_at_uri(copy).did # did
    \/ type # "" /\ parse_at_uri(copy).collection # type

deactivates_active_only(act, status) ==
    act.verb = "delete" /\ act.object = "actor" /\ status = "active"

\* delete of the actor, handled before the repo's status is looked at
deactivates(act, status) == act.verb = "delete" /\ act.object = "actor"

status_checked_never(status) == FALSE

\* if repo.status: return False
status_checked(status) == status # "active"

\* the return or raise that ends ATProto.send
send_path(act, fault) ==
    LET did == get_copy(user_copies)
        type == record_type(act, fault)
        copy == get_copy(base_copies(act))
    IN  IF fault = "target PDS not us" THEN "target PDS not us"
        ELSE IF act.verb \in CRUD_VERBS /\ act.object = NoId
                /\ ~undo_block_without_id(act)
        THEN "no id"
        ELSE IF act.verb = "stop-following" /\ fault = "no Follower"
        THEN "no Follower"
        ELSE IF fault = "no actor key" THEN "no actor key"
        ELSE IF did = NoDid THEN "assert did"
        ELSE IF fault = "DID doc PDS not us" THEN "DID doc PDS not us"
        ELSE IF repos[did].status = "none" THEN "assert repo"
        ELSE IF deactivates(act, repos[did].status)
        THEN IF fault = "DNS error" THEN "deactivated, DNS raised"
             ELSE "deactivated"
        ELSE IF type = "" /\ act.verb \notin {"delete", "undo"}
        THEN "no record"
        ELSE IF status_checked(repos[did].status) THEN "repo inactive"
        ELSE IF act.verb = "flag"
        THEN IF fault = "service error" THEN "report raised" ELSE "reported"
        ELSE IF act.verb = "undo" /\ act.type = "block"
        THEN IF act.subject = NoDid THEN "no blocked DID"
             ELSE IF fault \in {"InactiveRepo", "datastore error"}
             THEN "unblock raised"
             ELSE "unblocked"
        ELSE IF act.dm
        THEN IF fault = "recipient has disabled incoming messages"
             THEN "chat disabled"
             ELSE IF fault = "service error" THEN "chat raised"
             ELSE "chat sent"
        ELSE IF modifies(act) /\ ~has_base_obj(act) THEN "no original object"
        ELSE IF modifies(act) /\ copy = NoDid THEN "not created by us"
        ELSE IF modifies(act) /\ copy_elsewhere(copy, did, type)
        THEN "different repo or collection"
        ELSE IF fault = "InactiveRepo" THEN "InactiveRepo"
        ELSE IF modifies(act) /\ write_key(act, fault) \notin repo_records
        THEN "ValueError"
        ELSE IF fault = "datastore error" THEN "commit raised"
        ELSE "committed"

ReturnsTrue == {"deactivated", "reported", "unblocked", "chat sent", "committed"}
Raises ==
    {"assert did", "assert repo", "deactivated, DNS raised", "report raised",
     "unblock raised", "chat raised", "commit raised"}

send_result(path) ==
    IF path \in ReturnsTrue THEN "True"
    ELSE IF path \in Raises THEN "raised"
    ELSE "False"

adds_copy_never(act) == FALSE

\* if verb not in ('delete', 'undo'): base_obj.add('copies', ...)
adds_copy(act) == write_verb(act) \notin {"delete", "undo"}

\* the records of the repo after the write
records_after(act, fault) ==
    IF write_verb(act) \in {"delete", "undo"}
    THEN repo_records \ {write_key(act, fault)}
    ELSE repo_records \cup {write_key(act, fault)}

\* the base object after write()
object_after(act, fault) ==
    LET did == get_copy(user_copies)
        key == write_key(act, fault)
    IN  [stored |-> TRUE,
         copies |-> add(base_copies(act),
                        Target(at_uri_of(did, record_type(act, fault), key[2]),
                               "atproto"))]

\* ATProto.send(obj, pds_url, from_user), with what it calls
AtpSend(act, fault) ==
    LET path == send_path(act, fault)
        did == get_copy(user_copies)
    IN  /\ snd.calls < MaxSendCalls
        /\ snd' = [snd EXCEPT !.calls = snd.calls + 1,
                              !.result = send_result(path),
                              !.act = act, !.fault = fault]
        /\ outcome' = path
        /\ CASE path \in {"deactivated", "deactivated, DNS raised"} ->
                    /\ repos' = [repos EXCEPT ![did].status = "deactivated"]
                    /\ dns' = IF path = "deactivated"
                              THEN remove_dns(dns, user_handle) ELSE dns
                    /\ UNCHANGED <<taskVars, objects, repo_records>>
             [] path = "unblocked" ->
                    /\ commit(did)
                    /\ repo_records' =
                          {k \in repo_records : k[1] # "app.bsky.graph.block"}
                    /\ UNCHANGED <<dns, objects>>
             [] path = "committed" ->
                    /\ commit(did)
                    /\ repo_records' = records_after(act, fault)
                    /\ objects' = IF adds_copy(act)
                                  THEN [objects EXCEPT ![base_id_of(act)] =
                                           object_after(act, fault)]
                                  ELSE objects
                    /\ UNCHANGED dns
             [] OTHER ->
                    UNCHANGED <<taskVars, repos, dns, objects, repo_records>>
        /\ UNCHANGED <<pubkeyVars, now, follows, firehoseVars, user_handle,
                       user_copies, obj_copies, plc, cf, hubVars>>

\* how the relay connection of one Nostr.send ends
Conns ==
    {"OK", "ConnectionClosedOK on send", "ConnectionClosedOK on recv",
     "ConnectionClosedError"}
EventIds == {"e1", "e2"}

\* what websocket.recv can return besides the OK that accepts the event: an
\* OK that rejects it, the OK of another event, a NOTICE
OtherResponses == {"OK false", "OK of another event", "NOTICE"}

\* websocket.recv returned a message
answered(conn) == conn \in {"OK"} \cup OtherResponses

\* to_cls.convert(obj): the event of a profile or of a note
event_of(o, id) ==
    [kind |-> IF o = "profile" THEN KIND_PROFILE ELSE KIND_NOTE, id |-> id]

has_nostr_copy(copies) == \E i \in 1..Len(copies) : copies[i].protocol = "nostr"

IsNotNostr(copy) == copy.protocol # "nostr"

\* [copy for copy in obj.copies if copy.protocol != 'nostr']
without_nostr(copies) == SelectSeq(copies, IsNotNostr)

\* except ConnectionClosedOK: return False; other exceptions propagate
nostr_result(conn) ==
    IF answered(conn) THEN "True"
    ELSE IF conn = "ConnectionClosedError" THEN "raised"
    ELSE "False"

\* obj.copies after a send that the relay answered
copies_after_send(o, id) ==
    add(without_nostr(objects[o].copies),
        Target(uri_for(event_of(o, id)), "nostr"))

\* Nostr.send(obj, relay_url, from_user): its effect on the object and on the
\* relay, inside the call named by label
nostr_send(label, o, id, conn, result) ==
    /\ objects' =
          IF answered(conn)
          THEN [objects EXCEPT ![o] = [stored |-> TRUE,
                                       copies |-> copies_after_send(o, id)]]
          ELSE objects
    /\ snd' = [snd EXCEPT
                  !.calls = snd.calls + 1,
                  !.result = result,
                  !.act = Activity(label, o, o, NoDid, FALSE),
                  !.fault = conn,
                  !.events = IF conn # "ConnectionClosedOK on send"
                             THEN Append(snd.events, event_of(o, id))
                             ELSE snd.events]

NostrSend(o, id, conn) ==
    /\ snd.calls < MaxSendCalls
    /\ nostr_send("Nostr.send", o, id, conn, nostr_result(conn))
    /\ outcome' = conn
    /\ UNCHANGED <<pubkeyVars, taskVars, now, follows, firehoseVars, cfVars,
                   repo_records, hubVars>>

\* a create_for call that ends without a send
create_for_ends(result) ==
    /\ snd' = [snd EXCEPT !.calls = snd.calls + 1,
                          !.result = result,
                          !.act = Activity("Nostr.create_for", "profile",
                                           "profile", NoDid, FALSE),
                          !.fault = "none"]
    /\ UNCHANGED objects

publishes_profile_always(copies) == TRUE

\* create_for publishes the profile
publishes_profile(copies) == ~has_nostr_copy(copies)

\* Nostr.create_for(user)
NostrCreateFor(id, conn) ==
    /\ snd.calls < MaxSendCalls
    /\ IF has_nostr_copy(user_copies)
       THEN /\ create_for_ends("returned")
            /\ outcome' = "has copy"
            /\ UNCHANGED user_copies
       ELSE /\ user_copies' = add(user_copies, NostrCopy)
            /\ IF ~objects["profile"].stored
               THEN /\ create_for_ends("raised")
                    /\ outcome' = "no profile object"
               ELSE IF ~publishes_profile(objects["profile"].copies)
               THEN /\ create_for_ends("returned")
                    /\ outcome' = "profile already copied"
               ELSE /\ nostr_send("Nostr.create_for", "profile", id, conn,
                                  IF conn = "ConnectionClosedError" THEN "raised"
                                  ELSE "returned")
                    /\ outcome' = conn
    /\ UNCHANGED <<pubkeyVars, taskVars, now, follows, firehoseVars,
                   user_handle, obj_copies, repos, plc, dns, cf, repo_records,
                   hubVars>>

(***************************************************************************)
(* The datastore's users.  A user's pubkey is decoded from its key id.     *)
(***************************************************************************)
DEFAULT_TARGET == "wss://nos.lol"
RelayA == "wss://a"
BlockedRelay == "wss://blocked"
NoRelay == ""
Relays == {DEFAULT_TARGET, RelayA, BlockedRelay}

is_blocklisted(relay) == relay = BlockedRelay

uri_to_id(uri) == uri[3]

\* user.status: None, or why the user is not bridged
NoStatus == "None"
UserStatuses == {NoStatus, "blocked", "no-nip05"}

UserCatalog ==
    [name \in {"alice", "bob", "eve", "frank", "gus", "hank", "ivy"} |->
        CASE name \in {"alice", "eve"} ->
                [proto |-> "fake", key |-> <<"fake:", "", name>>,
                 target |-> NoRelay]
          [] name = "gus" ->
                [proto |-> "nostr", key |-> id_to_uri("npub", name),
                 target |-> RelayA]
          [] name = "hank" ->
                [proto |-> "nostr", key |-> id_to_uri("npub", name),
                 target |-> DEFAULT_TARGET]
          [] name = "ivy" ->
                [proto |-> "nostr", key |-> id_to_uri("npub", name),
                 target |-> BlockedRelay]
          [] OTHER ->
                [proto |-> "nostr", key |-> id_to_uri("npub", name),
                 target |-> NoRelay]]

hex_pubkey(user) == uri_to_id(user.key)

\* Nostr.target_for(user.obj): the user's first write relay, if any
target_for(user) == user.target

Threads == {"init", "L1", "L2"}

IdleThread == [pc |-> "idle", loaded_at |-> 0, new_nostr |-> {},
               relay |-> NoRelay, ret |-> "idle", absent |-> FALSE]

NoSince == 0 - 1
CreatedAts == {1, 2}

\* err is the last exception subscriber() caught, slept the time it then
\* waited before calling subscribe again, delivered how many events of its
\* feed the relay has delivered to us so far
OffSubscriber == [pc |-> "off", nostr_pubkeys_count |-> 0,
                  bridged_pubkeys_count |-> 0, subscription |-> 0,
                  sent |-> <<>>, processed |-> NoSince,
                  err |-> "none", slept |-> 0, delivered |-> 0]

HubIdle ==
    /\ users = [name \in {"alice", "bob"} |->
                   UserCatalog[name] @@ [updated |-> 1, status |-> NoStatus]]
    /\ clock = 1
    /\ pubkeys_loaded_at = 0
    /\ pubkeys_initialized = FALSE
    /\ subscribed_relays = <<>>
    /\ subscribed_relays_lock = "free"
    /\ started = [r \in Relays |-> 0]
    /\ thr = [t \in Threads |-> IdleThread]
    /\ sub = [r \in Relays |-> OffSubscriber]

(***************************************************************************)
(* A user is created or updated in the datastore.                          *)
(***************************************************************************)
MakeUser(name) ==
    /\ name \notin DOMAIN users
    /\ users' = [n \in DOMAIN users \cup {name} |->
                    IF n = name
                    THEN UserCatalog[name]
                             @@ [updated |-> clock + 1, status |-> NoStatus]
                    ELSE users[n]]
    /\ clock' = clock + 1
    /\ UNCHANGED <<pubkeyVars, taskVars, now, outcome, atpVars,
                   pubkeys_loaded_at, pubkeys_initialized, thr, relayVars,
                   subVars>>

MaxClock == 3

\* a stored user is put again with another status: it opts out or in, or
\* its profile loses or gains a valid NIP-05
SetStatus(name, status) ==
    /\ name \in DOMAIN users
    /\ clock < MaxClock
    /\ users[name].status # status
    /\ status = "no-nip05" => users[name].proto = "nostr"
    /\ users' = [users EXCEPT ![name].status = status,
                              ![name].updated = clock + 1]
    /\ clock' = clock + 1
    /\ UNCHANGED <<pubkeyVars, taskVars, now, outcome, atpVars,
                   pubkeys_loaded_at, pubkeys_initialized, thr, relayVars,
                   subVars>>

(***************************************************************************)
(* nostr_hub.add_relay(relay), called by thread t.                         *)
(***************************************************************************)
\* the blocklist check, before the lock is taken
begin_add_relay(t, relay, ret) ==
    IF is_blocklisted(relay)
    THEN [thr[t] EXCEPT !.pc = ret]
    ELSE [thr[t] EXCEPT !.pc = "ar_acquire", !.relay = relay, !.ret = ret]

lock_always_available == TRUE

lock_available == subscribed_relays_lock = "free"

AcquireLock(t) ==
    /\ thr[t].pc = "ar_acquire"
    /\ lock_available
    /\ subscribed_relays_lock' = t
    /\ thr' = [thr EXCEPT ![t].pc = "ar_check"]
    /\ UNCHANGED <<pubkeyVars, taskVars, now, outcome, atpVars, users, clock,
                   pubkeys_loaded_at, pubkeys_initialized, subscribed_relays,
                   started, subVars>>

InList(x, list) == \E i \in 1..Len(list) : list[i] = x

CheckSubscribed(t) ==
    /\ thr[t].pc = "ar_check"
    /\ thr' = [thr EXCEPT ![t].pc = "ar_append",
                          ![t].absent = ~InList(thr[t].relay, subscribed_relays)]
    /\ UNCHANGED <<pubkeyVars, taskVars, now, outcome, atpVars, users, clock,
                   pubkeys_loaded_at, pubkeys_initialized, relayVars, subVars>>

AppendAndStart(t) ==
    /\ thr[t].pc = "ar_append"
    /\ IF thr[t].absent
       THEN /\ subscribed_relays' = Append(subscribed_relays, thr[t].relay)
            /\ started' = [started EXCEPT ![thr[t].relay] = @ + 1]
            /\ sub' = [sub EXCEPT ![thr[t].relay].pc =
                          IF @ = "off" THEN "connect" ELSE @]
       ELSE UNCHANGED <<subscribed_relays, started, sub>>
    /\ subscribed_relays_lock' = "free"
    /\ thr' = [thr EXCEPT ![t].pc = thr[t].ret]
    /\ UNCHANGED <<pubkeyVars, taskVars, now, outcome, atpVars, users, clock,
                   pubkeys_loaded_at, pubkeys_initialized, relay_store>>

(***************************************************************************)
(* nostr_hub.init(): starts the loader, waits for the first load, then     *)
(* subscribes to the default relay.                                        *)
(***************************************************************************)
InitStart ==
    /\ thr["init"].pc = "idle"
    /\ thr' = [thr EXCEPT !["init"].pc = "wait"]
    /\ UNCHANGED <<pubkeyVars, taskVars, now, outcome, atpVars, users, clock,
                   pubkeys_loaded_at, pubkeys_initialized, relayVars, subVars>>

InitSubscribe ==
    /\ thr["init"].pc = "wait"
    /\ pubkeys_initialized
    /\ pubkeys_initialized' = FALSE
    /\ thr' = [thr EXCEPT !["init"] =
                  begin_add_relay("init", DEFAULT_TARGET, "done")]
    /\ UNCHANGED <<pubkeyVars, taskVars, now, outcome, atpVars, users, clock,
                   pubkeys_loaded_at, relayVars, subVars>>

(***************************************************************************)
(* nostr_hub._load_users, run by loader thread t on each timer tick.       *)
(***************************************************************************)
\* Nostr.status == None, proto.status == None
has_no_status(user) == user.status = NoStatus

new_users(proto_is_nostr) ==
    {n \in DOMAIN users :
        /\ (users[n].proto = "nostr") = proto_is_nostr
        /\ has_no_status(users[n])
        /\ users[n].updated > pubkeys_loaded_at}

LoadStart(t) ==
    /\ t # "init"
    /\ thr["init"].pc # "idle"
    /\ thr[t].pc = "idle"
    /\ thr' = [thr EXCEPT ![t].pc = "loop", ![t].loaded_at = clock,
                          ![t].new_nostr = new_users(TRUE)]
    /\ UNCHANGED <<pubkeyVars, taskVars, now, outcome, atpVars, users, clock,
                   pubkeys_loaded_at, pubkeys_initialized, relayVars, subVars>>

LoadNostrUser(t) ==
    /\ thr[t].pc = "loop"
    /\ \E n \in thr[t].new_nostr :
        /\ nostr_pubkeys' = nostr_pubkeys \cup {uri_to_id(users[n].key)}
        /\ thr' = [thr EXCEPT ![t] =
              IF target_for(users[n]) # NoRelay
              THEN [begin_add_relay(t, target_for(users[n]), "loop")
                        EXCEPT !.new_nostr = @ \ {n}]
              ELSE [thr[t] EXCEPT !.new_nostr = @ \ {n}]]
    /\ UNCHANGED <<bridged_pubkeys, taskVars, now, outcome, atpVars, users,
                   clock, pubkeys_loaded_at, pubkeys_initialized, relayVars,
                   subVars>>

LoadBridged(t) ==
    /\ thr[t].pc = "loop"
    /\ thr[t].new_nostr = {}
    /\ bridged_pubkeys' =
           bridged_pubkeys \cup {hex_pubkey(users[n]) : n \in new_users(FALSE)}
    /\ pubkeys_loaded_at' = thr[t].loaded_at
    /\ pubkeys_initialized' = TRUE
    /\ thr' = [thr EXCEPT ![t].pc = "idle"]
    /\ UNCHANGED <<nostr_pubkeys, taskVars, now, outcome, atpVars, users, clock,
                   relayVars, subVars>>

(***************************************************************************)
(* nostr_hub.subscriber(relay) and subscribe(relay): one thread per relay. *)
(* Its positions: "connect" (before connect()), "snap" (top of the outer   *)
(* loop), "req" (sizes recorded, REQ not yet built), "check" (top of the   *)
(* inner loop), "recv" (blocked in ws.recv).                               *)
(***************************************************************************)
MaxSent == 3
MaxHubTasks == 1

HubEvents ==
    {[isdict |-> TRUE, kind |-> KIND_NOTE, pubkey |-> "bob", id |-> "id_ok",
      sig |-> "sig_ok", tags |-> {}, created_at |-> 1],
     [isdict |-> TRUE, kind |-> KIND_NOTE, pubkey |-> "zed", id |-> "id_ok",
      sig |-> "sig_ok", tags |-> {<<"p", "alice">>}, created_at |-> 2],
     [isdict |-> TRUE, kind |-> KIND_NOTE, pubkey |-> "bob", id |-> "id_ok",
      sig |-> "sig_bad", tags |-> {}, created_at |-> 1],
     [isdict |-> TRUE, kind |-> KIND_NOTE, pubkey |-> "bob", id |-> "id_wrong",
      sig |-> "sig_ok", tags |-> {<<"p", "alice">>}, created_at |-> 2],
     [isdict |-> TRUE, kind |-> KIND_NOTE, pubkey |-> "zed", id |-> "id_ok",
      sig |-> "sig_ok", tags |-> {<<"p", "zed">>}, created_at |-> 1],
     [isdict |-> TRUE, kind |-> KIND_NOTE, pubkey |-> "bob", id |-> "id_ok",
      sig |-> "", tags |-> {}, created_at |-> 1],
     NotADict}

req_message(subscription) ==
    [type |-> "REQ", subscription |-> subscription,
     filters |-> <<[p |-> bridged_pubkeys, kinds |-> SUPPORTED_KINDS],
                   [authors |-> nostr_pubkeys, kinds |-> AUTHOR_FILTER_KINDS]>>]

close_message(subscription) == [type |-> "CLOSE", subscription |-> subscription]

pubkeys_changed_nostr_only(r) ==
    sub[r].nostr_pubkeys_count # Cardinality(nostr_pubkeys)

pubkeys_changed(r) ==
    \/ sub[r].nostr_pubkeys_count # Cardinality(nostr_pubkeys)
    \/ sub[r].bridged_pubkeys_count # Cardinality(bridged_pubkeys)

SubConnect(r) ==
    /\ sub[r].pc = "connect"
    /\ sub' = [sub EXCEPT ![r].pc = "snap"]
    /\ UNCHANGED <<pubkeyVars, taskVars, now, outcome, atpVars, loaderVars,
                   relayVars, relay_store>>

SubSnapshot(r) ==
    /\ sub[r].pc = "snap"
    /\ sub' = [sub EXCEPT ![r].pc = "req",
                          ![r].nostr_pubkeys_count = Cardinality(nostr_pubkeys),
                          ![r].bridged_pubkeys_count = Cardinality(bridged_pubkeys)]
    /\ UNCHANGED <<pubkeyVars, taskVars, now, outcome, atpVars, loaderVars,
                   relayVars, relay_store>>

SubSendReq(r) ==
    /\ sub[r].pc = "req"
    /\ Len(sub[r].sent) < MaxSent
    /\ sub' = [sub EXCEPT ![r].pc = "check",
                          ![r].subscription = @ + 1,
                          ![r].sent = Append(@, req_message(sub[r].subscription + 1))]
    /\ UNCHANGED <<pubkeyVars, taskVars, now, outcome, atpVars, loaderVars,
                   relayVars, relay_store>>

SubCheck(r) ==
    /\ sub[r].pc = "check"
    /\ IF pubkeys_changed(r)
       THEN /\ Len(sub[r].sent) < MaxSent
            /\ sub' = [sub EXCEPT ![r].pc = "snap",
                          ![r].sent = Append(@, close_message(sub[r].subscription))]
       ELSE sub' = [sub EXCEPT ![r].pc = "recv"]
    /\ UNCHANGED <<pubkeyVars, taskVars, now, outcome, atpVars, loaderVars,
                   relayVars, relay_store>>

\* ws.recv times out, or delivers OK, EOSE or NOTICE
SubRecvNothing(r) ==
    /\ sub[r].pc = "recv"
    /\ \E frame \in {"timeout", "OK", "EOSE", "NOTICE"} :
          sub' = [sub EXCEPT ![r].pc = "check"]
    /\ UNCHANGED <<pubkeyVars, taskVars, now, outcome, atpVars, loaderVars,
                   relayVars, relay_store>>

SubRecvClosed(r) ==
    /\ sub[r].pc = "recv"
    /\ sub' = [sub EXCEPT ![r].pc = "snap"]
    /\ UNCHANGED <<pubkeyVars, taskVars, now, outcome, atpVars, loaderVars,
                   relayVars, relay_store>>

\* subscriber(): what the loop does with an exception that subscribe raised
RECONNECT_DELAY == 30
ConnectionErrors == {"ConnectionClosed", "TimeoutError"}
OtherErrors == {"OSError", "ContextError"}

reconnect_wait_always(err) == RECONNECT_DELAY

reconnect_wait(err) == IF err \in ConnectionErrors THEN RECONNECT_DELAY ELSE 0

caught(s, err) == [s EXCEPT !.pc = "connect", !.err = err,
                            !.slept = reconnect_wait(err)]

\* connect() raises: a timeout while opening, or anything else
SubConnectFails(r, err) ==
    /\ sub[r].pc = "connect"
    /\ err \in {"TimeoutError", "OSError"}
    /\ sub' = [sub EXCEPT ![r] = caught(@, err)]
    /\ UNCHANGED <<pubkeyVars, taskVars, now, outcome, atpVars, loaderVars,
                   relayVars, relay_store>>

\* ws.recv raises ConnectionClosed: subscriber() sleeps and calls subscribe again
SubDisconnect(r) ==
    /\ sub[r].pc = "recv"
    /\ sub' = [sub EXCEPT ![r] = caught(@, "ConnectionClosed")]
    /\ UNCHANGED <<pubkeyVars, taskVars, now, outcome, atpVars, loaderVars,
                   relayVars, relay_store>>

\* handle re-raises only the loss of the datastore context
stops_subscribe_on_any_error(result) ==
    result \in {"raised ContextError", "reported error"}

stops_subscribe(result) == result = "raised ContextError"

\* ws.recv delivers ['EVENT', subscription, event]; delivered is the relay's
\* count of the events it has sent us once this one is out
SubRecv(r, event, res, delivered) ==
    /\ sub[r].pc = "recv"
    /\ handle(event, res)
    /\ sub' = [sub EXCEPT ![r] =
                  IF stops_subscribe(outcome')
                  THEN [caught(@, "ContextError") EXCEPT !.delivered = delivered]
                  ELSE [@ EXCEPT !.pc = "check",
                                 !.processed = event.created_at,
                                 !.delivered = delivered]]
    /\ UNCHANGED <<pubkeyVars, now, atpVars, loaderVars, relayVars, relay_store>>

SubRecvEvent(r, event, res) == SubRecv(r, event, res, sub[r].delivered)

\* what each relay has to deliver, in its order: events of bob, whom we bridge
\* out of Nostr, on one relay and mentions of alice on the other
FeedEvent(kind, pubkey, tags, created_at) ==
    [isdict |-> TRUE, kind |-> kind, pubkey |-> pubkey, id |-> "id_ok",
     sig |-> "sig_ok", tags |-> tags, created_at |-> created_at]

RelayFeed ==
    [r \in Relays |->
        CASE r = DEFAULT_TARGET ->
                 <<FeedEvent(KIND_NOTE, "bob", {}, 1),
                   FeedEvent(KIND_DELETE, "bob", {}, 2)>>
          [] r = RelayA ->
                 <<FeedEvent(KIND_NOTE, "zed", {<<"p", "alice">>}, 3),
                   FeedEvent(KIND_NOTE, "zed", {<<"p", "alice">>}, 4)>>
          [] OTHER -> <<>>]

\* ws.recv delivers the next event of the relay's feed
SubRecvNext(r, res) ==
    /\ sub[r].delivered < Len(RelayFeed[r])
    /\ SubRecv(r, RelayFeed[r][sub[r].delivered + 1], res, sub[r].delivered + 1)

(***************************************************************************)
(* SpecHandle: the two handlers applied to every event and op, from every  *)
(* loaded state of the pubkey sets.                                        *)
(***************************************************************************)
InitHandle ==
    /\ nostr_pubkeys \in SUBSET NativeUsers
    /\ bridged_pubkeys \in SUBSET BridgedUsers
    /\ follows \in SUBSET StoredFollows
    /\ FirehoseOff
    /\ CreateForOff
    /\ SendOff
    /\ tasks = <<>>
    /\ task_eta = <<>>
    /\ now = 0
    /\ outcome = "none"
    /\ HubIdle
    /\ relay_store = [r \in Relays |-> NoSince]

HandleEvent ==
    \E event \in HandleEvents : \E res \in ResultsFor(handle_path(event)) :
        /\ handle(event, res)
        /\ Len(tasks') <= MaxHandleTasks
        /\ UNCHANGED <<pubkeyVars, now, atpVars, hubVars>>

HandleOp ==
    \E op \in Ops : \E res \in ResultsFor(firehose_path(op)) :
        /\ firehose_handle(op, res)
        /\ Len(tasks') <= MaxHandleTasks
        /\ UNCHANGED <<pubkeyVars, now, atpVars, hubVars>>

NextHandle == HandleEvent \/ HandleOp

SpecHandle == InitHandle /\ [][NextHandle]_vars

(***************************************************************************)
(* SpecNostrHandle: nostr_hub.handle alone, applied to every event from    *)
(* every loaded state of the pubkey sets.                                  *)
(***************************************************************************)
InitNostrHandle == InitHandle /\ follows = {}

SpecNostrHandle == InitNostrHandle /\ [][HandleEvent]_vars

(***************************************************************************)
(* Spec: the hub with its default relay: init, one loader thread, users    *)
(* that appear while it runs, and the relay's subscriber rebuilding its    *)
(* filters.                                                                *)
(***************************************************************************)
HubInit ==
    /\ nostr_pubkeys = {}
    /\ bridged_pubkeys = {}
    /\ follows = {}
    /\ FirehoseOff
    /\ CreateForOff
    /\ SendOff
    /\ tasks = <<>>
    /\ task_eta = <<>>
    /\ now = 0
    /\ outcome = "none"
    /\ HubIdle

Init == HubInit /\ relay_store = [r \in Relays |-> NoSince]

NewUsers == {"eve", "frank"}
Loaders == {"L1"}

Next ==
    \/ \E name \in NewUsers : MakeUser(name)
    \/ InitStart
    \/ InitSubscribe
    \/ \E t \in Loaders : LoadStart(t)
    \/ \E t \in Loaders : LoadNostrUser(t)
    \/ \E t \in Loaders : LoadBridged(t)
    \/ \E t \in Threads : AcquireLock(t)
    \/ \E t \in Threads : CheckSubscribed(t)
    \/ \E t \in Threads : AppendAndStart(t)
    \/ \E r \in Relays : SubConnect(r)
    \/ \E r \in Relays : SubSnapshot(r)
    \/ \E r \in Relays : SubSendReq(r)
    \/ \E r \in Relays : SubCheck(r)
    \/ \E r \in Relays : SubRecvNothing(r)
    \/ \E r \in Relays : SubRecvClosed(r)
    \/ \E r \in Relays : SubDisconnect(r)

Spec == Init /\ [][Next]_vars

(***************************************************************************)
(* SpecEvents: the default relay's subscriber receiving events, with the   *)
(* users of the datastore loaded and a Relay entity that may hold a since. *)
(***************************************************************************)
InitEvents ==
    /\ HubInit
    /\ \E since \in {NoSince} \cup CreatedAts :
          relay_store = [r \in Relays |-> IF r = DEFAULT_TARGET THEN since
                                          ELSE NoSince]

NextEvents ==
    \/ InitStart
    \/ InitSubscribe
    \/ \E t \in Loaders : LoadStart(t)
    \/ \E t \in Loaders : LoadNostrUser(t)
    \/ \E t \in Loaders : LoadBridged(t)
    \/ \E t \in Threads : AcquireLock(t)
    \/ \E t \in Threads : CheckSubscribed(t)
    \/ \E t \in Threads : AppendAndStart(t)
    \/ \E r \in Relays : SubConnect(r)
    \/ \E r \in Relays : SubSnapshot(r)
    \/ \E r \in Relays : SubSendReq(r)
    \/ \E r \in Relays : SubCheck(r)
    \/ \E r \in Relays : SubRecvNothing(r)
    \/ \E r \in Relays : SubRecvClosed(r)
    \/ \E r \in Relays : SubDisconnect(r)
    \/ \E r \in Relays : \E event \in HubEvents :
          \E res \in ResultsFor(handle_path(event)) :
              SubRecvEvent(r, event, res) /\ Len(tasks') <= MaxHubTasks

SpecEvents == InitEvents /\ [][NextEvents]_vars

(***************************************************************************)
(* SpecRelays: init and two overlapping loader threads calling add_relay   *)
(* for users whose relays coincide, are new, or are blocklisted.           *)
(***************************************************************************)
RelayUsers == {"gus", "hank", "ivy"}
LateUsers == {"gus"}

InitRelays ==
    /\ nostr_pubkeys = {}
    /\ bridged_pubkeys = {}
    /\ follows = {}
    /\ FirehoseOff
    /\ CreateForOff
    /\ SendOff
    /\ tasks = <<>>
    /\ task_eta = <<>>
    /\ now = 0
    /\ outcome = "none"
    /\ users = [name \in {"alice", "bob"} \cup (RelayUsers \ LateUsers) |->
                   UserCatalog[name] @@ [updated |-> 1, status |-> NoStatus]]
    /\ clock = 1
    /\ pubkeys_loaded_at = 0
    /\ pubkeys_initialized = FALSE
    /\ subscribed_relays = <<>>
    /\ subscribed_relays_lock = "free"
    /\ started = [r \in Relays |-> 0]
    /\ thr = [t \in Threads |-> IdleThread]
    /\ sub = [r \in Relays |-> OffSubscriber]
    /\ relay_store = [r \in Relays |-> NoSince]

NextRelays ==
    \/ \E name \in LateUsers : MakeUser(name)
    \/ InitStart
    \/ InitSubscribe
    \/ \E t \in Threads : LoadStart(t)
    \/ \E t \in Threads : LoadNostrUser(t)
    \/ \E t \in Threads : LoadBridged(t)
    \/ \E t \in Threads : AcquireLock(t)
    \/ \E t \in Threads : CheckSubscribed(t)
    \/ \E t \in Threads : AppendAndStart(t)

SpecRelays == InitRelays /\ [][NextRelays]_vars

(***************************************************************************)
(* SpecTask: create_task called for several users and queues while time    *)
(* passes.                                                                 *)
(***************************************************************************)
MaxTasks == 3
MaxNow == 4

TaskCalls ==
    {[queue |-> "receive", authed_as |-> <<"did:plc:", "user">>, delay |-> 0],
     [queue |-> "receive", authed_as |-> <<"did:plc:", "bob">>, delay |-> 0],
     [queue |-> "receive", authed_as |-> NoAuth, delay |-> 0],
     [queue |-> "send", authed_as |-> <<"did:plc:", "user">>, delay |-> 0],
     [queue |-> "receive", authed_as |-> <<"did:plc:", "user">>,
      delay |-> DELETE_TASK_DELAY]}

CreateTask ==
    \E call \in TaskCalls :
        /\ Len(tasks) < MaxTasks
        /\ create_task(call.queue,
                       IF call.authed_as = NoAuth THEN NoParams
                       ELSE [authed_as |-> call.authed_as],
                       call.delay)
        /\ outcome' = "enqueued"
        /\ UNCHANGED <<pubkeyVars, now, atpVars, hubVars>>

Tick ==
    /\ now + 2 <= MaxNow
    /\ now' = now + 2
    /\ UNCHANGED <<pubkeyVars, taskVars, outcome, atpVars, hubVars>>

NextTask == CreateTask \/ Tick

SpecTask == InitHandle /\ [][NextTask]_vars

(***************************************************************************)
(* SpecOps: atproto_firehose.handle alone, applied to every op from every  *)
(* state of the stored follows, at different times.                        *)
(***************************************************************************)
InitOps == InitHandle /\ nostr_pubkeys = {} /\ bridged_pubkeys = {}

NextOps == HandleOp \/ Tick

SpecOps == InitOps /\ [][NextOps]_vars

(***************************************************************************)
(* SpecFirehose: the AP1 subscriber in front of the handler: every kind of *)
(* frame, for every loaded state of the DID sets.                          *)
(***************************************************************************)
InitFirehose ==
    /\ nostr_pubkeys = {}
    /\ bridged_pubkeys = {}
    /\ follows \in SUBSET StoredFollows
    /\ tasks = <<>>
    /\ task_eta = <<>>
    /\ now = 0
    /\ outcome = "none"
    /\ HubIdle
    /\ relay_store = [r \in Relays |-> NoSince]
    /\ atproto_dids \in {{DidUser}, {DidUser, DidBob}}
    /\ bridged_dids = {DidAlice}
    /\ cursor_db = [cursor |-> NoCursor, updated |-> 0]
    /\ FirehoseIdle
    /\ CreateForOff
    /\ SendOff

\* the frames the handler is fed from: everything a bridged author can
\* send, and one frame of each kind that is queued
HandledFrames ==
    {frame \in CommitFrames :
        \/ frame.repo = DidAlice
        \/ frame.repo = DidUser /\ frame.action \in {"create", "delete"}
              /\ frame.record.type \in {"app.bsky.feed.post", ""} \cup STORE_RECORD_TYPES
              /\ ~is_reply(frame.record) /\ frame.record.embed = NoDid
              /\ frame.record.mention = NoDid
        \/ frame.repo = DidBob /\ frame.action = "create"
              /\ frame.record = [Post EXCEPT !.parent = DidAlice]}
    \cup {frame \in AccountFrames : frame.repo = DidUser}

FhRecvHandled == FhRecv(HandledFrames)

NextFirehose == FhSubscribe \/ FhRecvHandled \/ FhDisconnect \/ FhHandle

SpecFirehose == InitFirehose /\ [][NextFirehose]_vars

(***************************************************************************)
(* SpecRelevance: the subscriber alone, over every frame.                  *)
(***************************************************************************)
FhRecvAny == FhRecv(Frames)

\* the handler thread takes the next op off the queue
FhDrain ==
    /\ commits # <<>>
    /\ commits' = Tail(commits)
    /\ outcome' = "handled"
    /\ UNCHANGED <<pubkeyVars, taskVars, now, follows, didVars, cfVars, sendVars, cursor_db, fh,
                   hubVars>>

NextRelevance == FhSubscribe \/ FhRecvAny \/ FhDisconnect \/ FhDrain

SpecRelevance == InitFirehose /\ [][NextRelevance]_vars

(***************************************************************************)
(* SpecCursor: the subscriber's cursor over frames, the passing of time,   *)
(* raised exceptions, lost connections and restarts of the process.        *)
(***************************************************************************)
MaxCursorSeq == 3
MaxFhNow == 22
StoredCursors == {NoCursor, 1}

CursorFrames ==
    {Frame("#commit", DidUser, seq, "create", Post, poisoned) :
        seq \in 1..MaxCursorSeq, poisoned \in BOOLEAN}
    \cup {Frame("#commit", DidBob, seq, "create", Post, FALSE) :
            seq \in 1..MaxCursorSeq}
    \cup OtherFrames

InitCursor ==
    /\ nostr_pubkeys = {}
    /\ bridged_pubkeys = {}
    /\ follows = {}
    /\ tasks = <<>>
    /\ task_eta = <<>>
    /\ now = 0
    /\ outcome = "none"
    /\ HubIdle
    /\ relay_store = [r \in Relays |-> NoSince]
    /\ atproto_dids = {DidUser}
    /\ bridged_dids = {DidAlice}
    /\ \E stored \in StoredCursors : cursor_db = [cursor |-> stored, updated |-> 0]
    /\ FirehoseIdle
    /\ CreateForOff
    /\ SendOff

FhRecvCursor == FhRecv(CursorFrames)

\* time passes between frames: just under the flush period, or a second
FhTick ==
    \E d \in {1, STORE_CURSOR_FREQ - 1} :
        /\ d = 1 => now - cursor_db.updated >= STORE_CURSOR_FREQ - 1
        /\ now - cursor_db.updated + d <= STORE_CURSOR_FREQ + 1
        /\ now + d <= MaxFhNow
        /\ now' = now + d
        /\ UNCHANGED <<pubkeyVars, taskVars, outcome, atpVars, hubVars>>

NextCursor ==
    FhSubscribe \/ FhRecvCursor \/ FhDisconnect \/ FhRestart \/ FhTick \/ FhDrain

SpecCursor == InitCursor /\ [][NextCursor]_vars

(***************************************************************************)
(* SpecCreateFor: calls of ATProto.create_for for one user, whose repo is  *)
(* missing, active, inactive or tombstoned, with the failures of the       *)
(* services it calls.                                                      *)
(***************************************************************************)
InitCreateFor ==
    /\ nostr_pubkeys = {}
    /\ bridged_pubkeys = {}
    /\ follows = {}
    /\ tasks = <<>>
    /\ task_eta = <<>>
    /\ now = 0
    /\ outcome = "none"
    /\ HubIdle
    /\ relay_store = [r \in Relays |-> NoSince]
    /\ FirehoseOff
    /\ user_handle \in Handles
    /\ CreateForIdle
    /\ SendOff
    /\ \/ /\ user_copies \in {<<>>, <<NostrCopy>>}
          /\ obj_copies = <<>>
          /\ repos = [d \in ShadowDids |-> [status |-> "none", commits |-> 0]]
          /\ plc = {}
          /\ dns = {}
       \/ /\ user_copies \in {<<Target(DidOld, "atproto")>>,
                             <<NostrCopy, Target(DidOld, "atproto")>>}
          /\ obj_copies = <<Target(profile_uri(DidOld), "atproto")>>
          /\ \E status \in Statuses :
                repos = [d \in ShadowDids |->
                            IF d = DidOld THEN [status |-> status, commits |-> 2]
                            ELSE [status |-> "none", commits |-> 0]]
          /\ plc = {DidOld}
          /\ dns \in {{}, {[name |-> dns_name(user_handle), did |-> DidOld]}}

NextCreateFor ==
    \/ CfStart \/ CfCreatePlc \/ CfSetDns \/ CfCreateRepo \/ CfInitialCommit
    \/ CfProfile \/ CfAddCopy \/ CfRaise \/ RepoStatus

SpecCreateFor == InitCreateFor /\ [][NextCreateFor]_vars

(***************************************************************************)
(* SpecSend: calls of ATProto.send for one user, with or without a repo,   *)
(* whose repo is active, deactivated or tombstoned, on objects that were   *)
(* or were not bridged before.                                             *)
(***************************************************************************)
DidOther == <<"did:plc:", 1>>

Unstored == [stored |-> FALSE, copies |-> <<>>]
Stored(copies) == [stored |-> TRUE, copies |-> copies]
CopyAt(did, collection) == Target(at_uri_of(did, collection, 0), "atproto")

NoteStates ==
    {Unstored, Stored(<<>>),
     Stored(<<CopyAt(DidOld, "app.bsky.feed.post")>>),
     Stored(<<CopyAt(DidOther, "app.bsky.feed.post")>>),
     Stored(<<CopyAt(DidOld, "app.bsky.feed.like")>>)}

BridgedRecords ==
    {<<"app.bsky.feed.post", 0>>, <<"app.bsky.feed.like", 0>>,
     <<"app.bsky.graph.follow", 0>>, <<"app.bsky.graph.block", 0>>}

InitSend ==
    /\ nostr_pubkeys = {}
    /\ bridged_pubkeys = {}
    /\ follows = {}
    /\ tasks = <<>>
    /\ task_eta = <<>>
    /\ now = 0
    /\ outcome = "none"
    /\ HubIdle
    /\ relay_store = [r \in Relays |-> NoSince]
    /\ FirehoseOff
    /\ user_handle = <<"alice.com.web", ".brid.gy">>
    /\ obj_copies = <<>>
    /\ CreateForIdle
    /\ SendIdle
    /\ \/ /\ user_copies = <<>>
          /\ repos = [d \in ShadowDids |-> [status |-> "none", commits |-> 0]]
          /\ plc = {}
          /\ dns = {}
          /\ objects = [o \in ObjIds |-> Unstored]
          /\ repo_records = {}
       \/ /\ user_copies = <<Target(DidOld, "atproto")>>
          /\ \E status \in {"active", "deactivated", TOMBSTONED} :
                repos = [d \in ShadowDids |->
                            IF d = DidOld THEN [status |-> status, commits |-> 2]
                            ELSE [status |-> "none", commits |-> 0]]
          /\ plc = {DidOld}
          /\ dns = {[name |-> dns_name(user_handle), did |-> DidOld]}
          /\ \E note \in NoteStates :
                \/ /\ objects = [o \in ObjIds |->
                                    IF o = "note" THEN note ELSE Unstored]
                   /\ repo_records = {}
                \/ /\ objects = [o \in ObjIds |->
                         CASE o = "note" -> note
                           [] o = "follow" ->
                                Stored(<<CopyAt(DidOld, "app.bsky.graph.follow")>>)
                           [] o = "block" ->
                                Stored(<<CopyAt(DidOld, "app.bsky.graph.block")>>)
                           [] OTHER -> Unstored]
                   /\ repo_records \in {{}, BridgedRecords}

SendCall == \E act \in Activities : \E fault \in faults_for(act) : AtpSend(act, fault)

NextSend == SendCall

SpecSend == InitSend /\ [][NextSend]_vars

(***************************************************************************)
(* SpecCopies: calls of ATProto.send and of Nostr.send that nothing makes  *)
(* fail, for a user whose repo is active.                                  *)
(***************************************************************************)
OldNostrCopy == Target(<<"nostr:", "note", "e0">>, "nostr")

InitCopies ==
    /\ nostr_pubkeys = {}
    /\ bridged_pubkeys = {}
    /\ follows = {}
    /\ tasks = <<>>
    /\ task_eta = <<>>
    /\ now = 0
    /\ outcome = "none"
    /\ HubIdle
    /\ relay_store = [r \in Relays |-> NoSince]
    /\ FirehoseOff
    /\ user_handle = <<"alice.com.web", ".brid.gy">>
    /\ obj_copies = <<>>
    /\ CreateForIdle
    /\ SendIdle
    /\ user_copies = <<Target(DidOld, "atproto")>>
    /\ repos = [d \in ShadowDids |->
                   IF d = DidOld THEN [status |-> "active", commits |-> 2]
                   ELSE [status |-> "none", commits |-> 0]]
    /\ plc = {DidOld}
    /\ dns = {[name |-> dns_name(user_handle), did |-> DidOld]}
    /\ repo_records = BridgedRecords
    /\ \E note \in {Unstored,
                    Stored(<<CopyAt(DidOld, "app.bsky.feed.post")>>),
                    Stored(<<OldNostrCopy, CopyAt(DidOld, "app.bsky.feed.post")>>)} :
          objects = [o \in ObjIds |->
                CASE o = "note" -> note
                  [] o = "follow" ->
                       Stored(<<CopyAt(DidOld, "app.bsky.graph.follow")>>)
                  [] o = "block" ->
                       Stored(<<CopyAt(DidOld, "app.bsky.graph.block")>>)
                  [] OTHER -> Unstored]

SendUnfailing == \E act \in Activities : AtpSend(act, "none")

NostrSendNote == \E id \in EventIds : \E conn \in Conns : NostrSend("note", id, conn)

NextCopies == SendUnfailing \/ NostrSendNote

SpecCopies == InitCopies /\ [][NextCopies]_vars

(***************************************************************************)
(* SpecNostrSend: calls of Nostr.send and of Nostr.create_for for one      *)
(* user, on a note and on the user's profile.                              *)
(***************************************************************************)
InitNostrSend ==
    /\ nostr_pubkeys = {}
    /\ bridged_pubkeys = {}
    /\ follows = {}
    /\ tasks = <<>>
    /\ task_eta = <<>>
    /\ now = 0
    /\ outcome = "none"
    /\ HubIdle
    /\ relay_store = [r \in Relays |-> NoSince]
    /\ FirehoseOff
    /\ user_handle = <<"alice.com.web", ".brid.gy">>
    /\ obj_copies = <<>>
    /\ CreateForIdle
    /\ SendIdle
    /\ repos = [d \in ShadowDids |-> [status |-> "none", commits |-> 0]]
    /\ plc = {}
    /\ dns = {}
    /\ repo_records = {}
    /\ user_copies \in {<<>>, <<NostrCopy>>, <<Target(DidOld, "atproto")>>}
    /\ \E note \in {Unstored, Stored(<<OldNostrCopy>>),
                    Stored(<<OldNostrCopy,
                             CopyAt(DidOld, "app.bsky.feed.post")>>)} :
       \E profile \in {Unstored, Stored(<<>>),
                       Stored(<<Target(<<"nostr:", "nprofile", "e0">>,
                                       "nostr")>>)} :
          objects = [o \in ObjIds |->
                CASE o = "note" -> note
                  [] o = "profile" -> profile
                  [] OTHER -> Unstored]

NostrSendCall ==
    \E o \in {"note", "profile"} : \E id \in EventIds : \E conn \in Conns :
        NostrSend(o, id, conn)

NostrCreateForCall ==
    \E id \in EventIds : \E conn \in Conns : NostrCreateFor(id, conn)

NextNostrSend == NostrSendCall \/ NostrCreateForCall

SpecNostrSend == InitNostrSend /\ [][NextNostrSend]_vars

(***************************************************************************)
(* SpecResponses: calls of Nostr.send on a note and on the profile, with   *)
(* every answer of the relay.                                              *)
(***************************************************************************)
NextResponses ==
    \E o \in {"note", "profile"} : \E id \in EventIds :
    \E conn \in Conns \cup OtherResponses :
        NostrSend(o, id, conn)

SpecResponses == InitNostrSend /\ [][NextResponses]_vars

(***************************************************************************)
(* SpecStatus: the loader runs while the status of stored users changes.   *)
(***************************************************************************)
InitStatus ==
    /\ nostr_pubkeys = {}
    /\ bridged_pubkeys = {}
    /\ follows = {}
    /\ FirehoseOff
    /\ CreateForOff
    /\ SendOff
    /\ tasks = <<>>
    /\ task_eta = <<>>
    /\ now = 0
    /\ outcome = "none"
    /\ HubIdle
    /\ relay_store = [r \in Relays |-> NoSince]

NextStatus ==
    \/ \E name \in {"alice", "bob"} : \E status \in UserStatuses :
          SetStatus(name, status)
    \/ InitStart
    \/ \E t \in Threads : LoadStart(t)
    \/ \E t \in Threads : LoadNostrUser(t)
    \/ \E t \in Threads : LoadBridged(t)

SpecStatus == InitStatus /\ [][NextStatus]_vars

(***************************************************************************)
(* Nostr.reload_profile: the user's kind 0 profile, NIP-65 relay list and  *)
(* NIP-05 id, fetched from the user's relay.  The user's entity has the    *)
(* properties obj_key, relays and valid_nip05 here.                        *)
(***************************************************************************)
KIND_RELAYS == 10002
NoKey == "None"
NoNip05 == "None"

\* the events a relay may answer with, by id, and the Objects stored for them
ProfileEvents ==
    [id \in {"P0", "P1", "P2", "R0", "R1"} |->
        CASE id = "P0" -> [kind |-> KIND_PROFILE, nip05 |-> "old"]
          [] id = "P1" -> [kind |-> KIND_PROFILE, nip05 |-> "a@example.com"]
          [] id = "P2" -> [kind |-> KIND_PROFILE, nip05 |-> NoNip05]
          [] OTHER -> [kind |-> KIND_RELAYS, nip05 |-> NoNip05]]

QueryResults ==
    {<<>>, <<"P1">>, <<"P2">>, <<"R1">>, <<"P1", "R1">>, <<"R1", "P2">>,
     <<"P1", "P2">>}

\* what the NIP-05 lookup of the profile's id answers
Nip05Lookups == {"this npub", "another npub", "raises"}

\* Nostr.nip_05: the nip05 of the user's profile object
nip_05(user) ==
    IF user.obj_key # NoKey /\ ProfileEvents[user.obj_key].kind = KIND_PROFILE
    THEN ProfileEvents[user.obj_key].nip05
    ELSE NoNip05

\* the first event of the kind among the first upto events, NoKey if none
first_of_kind(events, kind, upto) ==
    LET at == {i \in 1..upto : ProfileEvents[events[i]].kind = kind}
    IN  IF at = {} THEN NoKey
        ELSE events[CHOOSE i \in at : \A j \in at : i <= j]

\* the for loop stops once it holds a profile and a relay list
events_read(events) ==
    LET both == {i \in 1..Len(events) :
                    /\ first_of_kind(events, KIND_PROFILE, i) # NoKey
                    /\ first_of_kind(events, KIND_RELAYS, i) # NoKey}
    IN  IF both = {} THEN Len(events)
        ELSE CHOOSE i \in both : \A j \in both : i <= j

with_events(user, events) ==
    LET n == events_read(events)
        profile == first_of_kind(events, KIND_PROFILE, n)
        relays == first_of_kind(events, KIND_RELAYS, n)
    IN  [user EXCEPT !.obj_key = IF profile # NoKey THEN profile ELSE @,
                     !.relays = IF relays # NoKey THEN relays ELSE @]

\* check NIP-05
with_nip05(user, lookup) ==
    [user EXCEPT !.valid_nip05 =
        IF nip_05(user) # NoNip05 /\ lookup = "this npub" THEN nip_05(user)
        ELSE NoNip05]

ReloadProfile(name, connects, events, lookup) ==
    /\ name \in DOMAIN users
    /\ users[name].proto = "nostr"
    /\ clock < MaxClock
    /\ IF ~connects
       THEN /\ outcome' = "reload_profile raised"
            /\ UNCHANGED <<users, clock>>
       ELSE /\ outcome' = IF events = <<>> THEN "reload_profile, no events"
                          ELSE "reload_profile"
            /\ users' = [users EXCEPT ![name] =
                            [with_nip05(with_events(@, events), lookup)
                                EXCEPT !.updated = clock + 1]]
            /\ clock' = clock + 1
    /\ UNCHANGED <<pubkeyVars, taskVars, now, atpVars, pubkeys_loaded_at,
                   pubkeys_initialized, thr, relayVars, subVars>>

(***************************************************************************)
(* SpecDns: set_dns and remove_dns called one after another for a handle,  *)
(* from a zone that holds no record for it or one of an earlier DID, next  *)
(* to the record of another handle.                                        *)
(***************************************************************************)
OtherHandle == <<"bob.com.web", ".brid.gy">>
DnsDids == {DidOld, <<"did:plc:", 1>>, <<"did:plc:", 2>>}

InitDns ==
    /\ nostr_pubkeys = {}
    /\ bridged_pubkeys = {}
    /\ follows = {}
    /\ tasks = <<>>
    /\ task_eta = <<>>
    /\ now = 0
    /\ outcome = "none"
    /\ HubIdle
    /\ relay_store = [r \in Relays |-> NoSince]
    /\ FirehoseOff
    /\ SendOff
    /\ user_handle \in Handles
    /\ user_copies = <<>>
    /\ obj_copies = <<>>
    /\ repos = [d \in ShadowDids |-> [status |-> "none", commits |-> 0]]
    /\ plc = {}
    /\ \E old \in SUBSET {[name |-> dns_name(user_handle), did |-> DidOld]} :
          dns = old \cup {[name |-> dns_name(OtherHandle), did |-> DidOld]}
    /\ CreateForIdle

NextDns ==
    \/ \E did \in DnsDids : SetDnsStart(did)
    \/ \E answers \in BOOLEAN : SetDnsRemove(answers)
    \/ \E answers \in BOOLEAN : SetDnsAdd(answers)
    \/ \E answers \in BOOLEAN : RemoveDns(answers)

SpecDns == InitDns /\ [][NextDns]_vars

(***************************************************************************)
(* SpecConcurrent: two workers call create_for once each for the same      *)
(* user, who is not bridged yet, and interleave at every step.             *)
(***************************************************************************)
InitConcurrent ==
    /\ nostr_pubkeys = {}
    /\ bridged_pubkeys = {}
    /\ follows = {}
    /\ tasks = <<>>
    /\ task_eta = <<>>
    /\ now = 0
    /\ outcome = "none"
    /\ HubIdle
    /\ relay_store = [r \in Relays |-> NoSince]
    /\ FirehoseOff
    /\ SendOff
    /\ user_handle \in Handles
    /\ user_copies \in {<<>>, <<NostrCopy>>}
    /\ obj_copies = <<>>
    /\ repos = [d \in ShadowDids |-> [status |-> "none", commits |-> 0]]
    /\ plc = {}
    /\ dns = {}
    /\ cf = [pc |-> "idle", copies |-> <<>>, did |-> NoDid, calls |-> 0,
             other |-> [pc |-> "idle", copies |-> <<>>, did |-> NoDid,
                        calls |-> 0]]

NextConcurrent ==
    \/ CfStart /\ cf.calls = 0
    \/ CfCreatePlc
    \/ CfSetDns
    \/ CfCreateRepo
    \/ CfInitialCommit
    \/ CfProfile
    \/ CfAddCopy
    \/ CfRaise
    \/ CfSwitch

SpecConcurrent == InitConcurrent /\ [][NextConcurrent]_vars

(***************************************************************************)
(* SpecSubscriber: the default relay's subscriber with both users loaded,  *)
(* connections that fail to open or drop, and a relay delivering its feed  *)
(* to a task queue that may fail.                                          *)
(***************************************************************************)
Connecting(relays) ==
    [r \in Relays |-> IF r \in relays THEN [OffSubscriber EXCEPT !.pc = "connect"]
                      ELSE OffSubscriber]

InitSubscriber ==
    /\ nostr_pubkeys = NativeUsers
    /\ bridged_pubkeys = BridgedUsers
    /\ follows = {}
    /\ FirehoseOff
    /\ CreateForOff
    /\ SendOff
    /\ tasks = <<>>
    /\ task_eta = <<>>
    /\ now = 0
    /\ outcome = "none"
    /\ users = [name \in {"alice", "bob"} |->
                   UserCatalog[name] @@ [updated |-> 1, status |-> NoStatus]]
    /\ clock = 1
    /\ pubkeys_loaded_at = 1
    /\ pubkeys_initialized = TRUE
    /\ subscribed_relays = <<DEFAULT_TARGET>>
    /\ subscribed_relays_lock = "free"
    /\ started = [r \in Relays |-> IF r = DEFAULT_TARGET THEN 1 ELSE 0]
    /\ thr = [t \in Threads |-> IdleThread]
    /\ sub = Connecting({DEFAULT_TARGET})
    /\ relay_store = [r \in Relays |-> NoSince]

NextSubscriber ==
    \/ \E err \in {"TimeoutError", "OSError"} : SubConnectFails(DEFAULT_TARGET, err)
    \/ SubConnect(DEFAULT_TARGET)
    \/ SubSnapshot(DEFAULT_TARGET)
    \/ SubSendReq(DEFAULT_TARGET)
    \/ SubCheck(DEFAULT_TARGET)
    \/ SubRecvNothing(DEFAULT_TARGET)
    \/ SubRecvClosed(DEFAULT_TARGET)
    \/ SubDisconnect(DEFAULT_TARGET)
    \/ \E res \in Results : SubRecvNext(DEFAULT_TARGET, res)

SpecSubscriber == InitSubscriber /\ [][NextSubscriber]_vars

(***************************************************************************)
(* SpecProfile: reload_profile called for bob, whose entity may hold a     *)
(* profile, a relay list and a validated NIP-05 id from before, and for    *)
(* frank, who has none.                                                    *)
(***************************************************************************)
InitProfile ==
    /\ nostr_pubkeys = NativeUsers
    /\ bridged_pubkeys = BridgedUsers
    /\ follows = {}
    /\ FirehoseOff
    /\ CreateForOff
    /\ SendOff
    /\ tasks = <<>>
    /\ task_eta = <<>>
    /\ now = 0
    /\ outcome = "none"
    /\ \E obj_key \in {NoKey, "P0"} : \E relays \in {NoKey, "R0"} :
       \E valid_nip05 \in {NoNip05, "old", "a@example.com"} :
          users = [name \in {"bob", "frank"} |->
                      UserCatalog[name]
                          @@ [updated |-> 1, status |-> NoStatus,
                              obj_key |-> IF name = "bob" THEN obj_key ELSE NoKey,
                              relays |-> IF name = "bob" THEN relays ELSE NoKey,
                              valid_nip05 |-> IF name = "bob" THEN valid_nip05
                                              ELSE NoNip05]]
    /\ clock = 1
    /\ pubkeys_loaded_at = 1
    /\ pubkeys_initialized = TRUE
    /\ subscribed_relays = <<>>
    /\ subscribed_relays_lock = "free"
    /\ started = [r \in Relays |-> 0]
    /\ thr = [t \in Threads |-> IdleThread]
    /\ sub = [r \in Relays |-> OffSubscriber]
    /\ relay_store = [r \in Relays |-> NoSince]

NextProfile ==
    \E name \in {"bob", "frank"} : \E connects \in BOOLEAN :
    \E events \in QueryResults : \E lookup \in Nip05Lookups :
        ReloadProfile(name, connects, events, lookup)

SpecProfile == InitProfile /\ [][NextProfile]_vars

(***************************************************************************)
(* SpecOrder: two subscribers, each receiving its relay's feed.            *)
(***************************************************************************)
FeedRelays == {DEFAULT_TARGET, RelayA}

InitOrder ==
    /\ nostr_pubkeys = NativeUsers
    /\ bridged_pubkeys = BridgedUsers
    /\ follows = {}
    /\ FirehoseOff
    /\ CreateForOff
    /\ SendOff
    /\ tasks = <<>>
    /\ task_eta = <<>>
    /\ now = 0
    /\ outcome = "none"
    /\ users = [name \in {"alice", "bob"} |->
                   UserCatalog[name] @@ [updated |-> 1, status |-> NoStatus]]
    /\ clock = 1
    /\ pubkeys_loaded_at = 1
    /\ pubkeys_initialized = TRUE
    /\ subscribed_relays = <<DEFAULT_TARGET, RelayA>>
    /\ subscribed_relays_lock = "free"
    /\ started = [r \in Relays |-> IF r \in FeedRelays THEN 1 ELSE 0]
    /\ thr = [t \in Threads |-> IdleThread]
    /\ sub = Connecting(FeedRelays)
    /\ relay_store = [r \in Relays |-> NoSince]

NextOrder ==
    \/ \E r \in FeedRelays : SubConnect(r)
    \/ \E r \in FeedRelays : SubSnapshot(r)
    \/ \E r \in FeedRelays : SubSendReq(r)
    \/ \E r \in FeedRelays : SubCheck(r)
    \/ \E r \in FeedRelays : SubRecvNothing(r)
    \/ \E r \in FeedRelays : \E res \in {"ok", "error"} : SubRecvNext(r, res)

SpecOrder == InitOrder /\ [][NextOrder]_vars

(***************************************************************************)
(* SpecFilter: two subscribers start with alice and bob loaded while the   *)
(* loader picks up one more user, a native one or a bridged one, at any    *)
(* point of their loops.  SpecFilterFair adds the scheduling: every thread *)
(* that can take a step takes it, and ws.recv returns at its timeout.      *)
(***************************************************************************)
InitFilter ==
    /\ nostr_pubkeys = NativeUsers
    /\ bridged_pubkeys = BridgedUsers
    /\ follows = {}
    /\ FirehoseOff
    /\ CreateForOff
    /\ SendOff
    /\ tasks = <<>>
    /\ task_eta = <<>>
    /\ now = 0
    /\ outcome = "none"
    /\ \E new \in NewUsers :
          users = [name \in {"alice", "bob", new} |->
                      UserCatalog[name]
                          @@ [updated |-> IF name = new THEN 2 ELSE 1,
                              status |-> NoStatus]]
    /\ clock = 2
    /\ pubkeys_loaded_at = 1
    /\ pubkeys_initialized = FALSE
    /\ subscribed_relays = <<DEFAULT_TARGET, RelayA>>
    /\ subscribed_relays_lock = "free"
    /\ started = [r \in Relays |-> IF r \in FeedRelays THEN 1 ELSE 0]
    /\ thr = [t \in Threads |->
                 IF t = "init" THEN [IdleThread EXCEPT !.pc = "done"]
                 ELSE IdleThread]
    /\ sub = Connecting(FeedRelays)
    /\ relay_store = [r \in Relays |-> NoSince]

NextFilter ==
    \/ \E t \in Loaders : LoadStart(t)
    \/ \E t \in Loaders : LoadNostrUser(t)
    \/ \E t \in Loaders : LoadBridged(t)
    \/ \E r \in FeedRelays : SubConnect(r)
    \/ \E r \in FeedRelays : SubSnapshot(r)
    \/ \E r \in FeedRelays : SubSendReq(r)
    \/ \E r \in FeedRelays : SubCheck(r)
    \/ \E r \in FeedRelays : SubRecvNothing(r)

SpecFilter == InitFilter /\ [][NextFilter]_vars

FairFilter ==
    /\ \A t \in Loaders :
          WF_vars(LoadStart(t) \/ LoadNostrUser(t) \/ LoadBridged(t))
    /\ \A r \in FeedRelays :
          WF_vars(SubConnect(r) \/ SubSnapshot(r) \/ SubSendReq(r)
                  \/ SubCheck(r) \/ SubRecvNothing(r))

SpecFilterFair == SpecFilter /\ FairFilter

(***************************************************************************)
(* Properties.                                                             *)
(***************************************************************************)
Last(seq) == seq[Len(seq)]

NostrTasks == {i \in 1..Len(tasks) : tasks[i].source_protocol = "nostr"}
ATProtoTasks == {i \in 1..Len(tasks) : tasks[i].source_protocol = "atproto"}

FromNative(event) == event.pubkey \in nostr_pubkeys
MentionsBridged(event) ==
    \E tag \in event.tags : tag[1] = "p" /\ tag[2] \in bridged_pubkeys
WellFormed(event) ==
    /\ event.isdict
    /\ event.kind # NoKind
    /\ event.pubkey # ""
    /\ event.id # ""
    /\ event.sig # ""
CorrectlySigned(event) == event.id = "id_ok" /\ event.sig = "sig_ok"
EnqueuesOne ==
    /\ Len(tasks') = Len(tasks) + 1
    /\ SubSeq(tasks', 1, Len(tasks)) = tasks

SignedEvents == {event \in HandleEvents : WellFormed(event) /\ CorrectlySigned(event)}

C2_LoopbackSuppressed ==
    \A i \in NostrTasks : tasks[i].nostr.pubkey \notin bridged_pubkeys

\* C3: every receive task's authed_as is the signing identity of its event:
\* the nostr:npub URI of the event's pubkey for Nostr, the DID of the commit's
\* repo for ATProto.
C3_AuthedAsIsSigner ==
    /\ \A i \in NostrTasks :
          tasks[i].authed_as = <<"nostr:", "npub", tasks[i].nostr.pubkey>>
    /\ \A i \in ATProtoTasks :
          /\ tasks[i].authed_as \in Dids
          /\ tasks[i].authed_as = tasks[i].id[2]

C3_Witness ==
    /\ Len(tasks) = 1
    /\ tasks[1].source_protocol = "nostr"
    /\ tasks[1].nostr.pubkey = "zed"
    /\ tasks[1].authed_as = <<"nostr:", "npub", "zed">>

\* C5: no receive task is ever enqueued for an event whose kind is outside the
\* supported kinds.
C5_UnsupportedKindDropped ==
    \A i \in NostrTasks : tasks[i].nostr.kind \in SUPPORTED_KINDS

\* C6: a task for a delete (a Nostr kind 5 event, an ATProto op with action
\* delete) is enqueued with delay DELETE_TASK_DELAY, a task for anything else
\* with no delay.
C6_DelayedDeletes ==
    [][tasks' # tasks =>
        /\ \A event \in HandleEvents :
             \A res \in ResultsFor(handle_path(event)) :
                handle(event, res) =>
                   Last(tasks').delay =
                      IF event.kind = 5 THEN DELETE_TASK_DELAY ELSE 0
        /\ \A op \in Ops : \A res \in ResultsFor(firehose_path(op)) :
             firehose_handle(op, res) =>
                Last(tasks').delay =
                   IF op.action = "delete" THEN DELETE_TASK_DELAY ELSE 0]_vars

C6_Witness ==
    /\ Len(tasks) = 1
    /\ tasks[1].source_protocol = "nostr"
    /\ tasks[1].nostr.kind = KIND_DELETE
    /\ tasks[1].delay = DELETE_TASK_DELAY

BadEvent(event) == ~WellFormed(event) \/ ~CorrectlySigned(event)

\* C4: an event with a bad id or a bad signature, or a malformed event (not
\* a dict, or missing kind, pubkey, id or sig), is dropped: the subscriber
\* that receives it enqueues no receive task and goes on to its next message.
C4_BadEventDropped ==
    [][\A r \in Relays : \A event \in HubEvents :
          BadEvent(event) =>
              \A res \in Results :
                  SubRecvEvent(r, event, res) =>
                      /\ tasks' = tasks
                      /\ sub'[r].pc = "check"
                      /\ sub'[r].sent = sub[r].sent]_vars

C4_Witness ==
    /\ outcome = "bad id or sig"
    /\ sub[DEFAULT_TARGET].pc = "check"
    /\ sub[DEFAULT_TARGET].processed # NoSince
    /\ tasks = <<>>

SinceOf(filter) == IF "since" \in DOMAIN filter THEN filter.since ELSE NoSince

\* C7: once a subscriber has processed an event with created_at T from relay
\* R, the persisted Relay entity of R has since = T, and every REQ sent to R
\* carries the stored since in both filters, or no since when none is stored.
C7_ResumeFromSince ==
    [][\A r \in Relays :
          /\ sub'[r].processed # sub[r].processed =>
                relay_store'[r] = sub'[r].processed
          /\ (sub'[r].sent # sub[r].sent /\ Last(sub'[r].sent).type = "REQ") =>
                /\ SinceOf(Last(sub'[r].sent).filters[1]) = relay_store[r]
                /\ SinceOf(Last(sub'[r].sent).filters[2]) = relay_store[r]]_vars

SizesDiffer(r) ==
    \/ Cardinality(nostr_pubkeys) # sub[r].nostr_pubkeys_count
    \/ Cardinality(bridged_pubkeys) # sub[r].bridged_pubkeys_count

Sends(r, msg) == sub'[r].sent = Append(sub[r].sent, msg)

\* C8: a live subscriber, each time it looks, sends CLOSE for its current
\* subscription exactly when the size of nostr_pubkeys or of bridged_pubkeys
\* differs from the size recorded for its last REQ, and otherwise sends
\* nothing; the message that follows a CLOSE is a REQ with a new subscription
\* id, built from the pubkey sets as they are when it is sent.
C8_FilterRebuild ==
    [][\A r \in Relays :
          /\ (sub[r].pc = "check" /\ sub'[r] # sub[r]) =>
                IF SizesDiffer(r)
                THEN Sends(r, [type |-> "CLOSE",
                               subscription |-> sub[r].subscription])
                ELSE sub'[r].sent = sub[r].sent
          /\ (sub'[r].sent # sub[r].sent /\ Last(sub'[r].sent).type = "CLOSE") =>
                sub[r].pc = "check" /\ SizesDiffer(r)
          /\ (sub'[r].sent # sub[r].sent /\ sub[r].sent # <<>>
              /\ Last(sub[r].sent).type = "CLOSE") =>
                /\ Last(sub'[r].sent).type = "REQ"
                /\ Last(sub'[r].sent).subscription
                      # Last(sub[r].sent).subscription
                /\ Last(sub'[r].sent).filters[1].p = bridged_pubkeys
                /\ Last(sub'[r].sent).filters[2].authors = nostr_pubkeys]_vars

C8_Witness ==
    \E r \in Relays :
        /\ Len(sub[r].sent) = 3
        /\ sub[r].sent[1].type = "REQ"
        /\ sub[r].sent[2].type = "CLOSE"
        /\ sub[r].sent[3].type = "REQ"
        /\ sub[r].sent[3].filters[1].p # sub[r].sent[1].filters[1].p
        /\ sub[r].pc = "recv"
        /\ ~SizesDiffer(r)

Occurrences(x, list) == Cardinality({i \in 1..Len(list) : list[i] = x})

\* C9: subscribed_relays holds each relay at most once, exactly one
\* subscriber thread has been started for each relay in it and none for any
\* other, and a blocklisted relay is never in it and never gets a subscriber.
C9_OneSubscriberPerRelay ==
    \A r \in Relays :
        /\ Occurrences(r, subscribed_relays) <= 1
        /\ started[r] = Occurrences(r, subscribed_relays)
        /\ r = BlockedRelay => (started[r] = 0 /\ ~InList(r, subscribed_relays))

C9_Witness ==
    /\ Len(subscribed_relays) = 2
    /\ "ivy" \in nostr_pubkeys
    /\ \E t \in Threads : thr[t].pc = "ar_append" /\ ~thr[t].absent
    /\ \E t \in Threads : thr[t].pc = "ar_acquire"

SameKey(i, j) ==
    /\ tasks[i].queue = tasks[j].queue
    /\ "authed_as" \in DOMAIN tasks[j]
    /\ tasks[i].authed_as = tasks[j].authed_as

Earlier(i) == {j \in 1..(i - 1) : SameKey(i, j)}

\* C10: on the rate limited queue, the k-th task created at one instant for
\* one authed_as is scheduled at that instant plus (k-1) intervals, the first
\* having no schedule time, whatever was created for other users; a task with
\* no authed_as has no schedule time.
C10_PerUserRateLimit ==
    \A i \in 1..Len(tasks) :
        (tasks[i].queue = "receive" /\ tasks[i].delay = 0) =>
            IF "authed_as" \notin DOMAIN tasks[i]
            THEN tasks[i].schedule_time = NoSchedule
            ELSE (\A j \in Earlier(i) : tasks[j].created = tasks[i].created) =>
                    tasks[i].schedule_time =
                        IF Earlier(i) = {} THEN NoSchedule
                        ELSE tasks[i].created
                                + Cardinality(Earlier(i)) * PER_USER_TASK_RATE

C10_Witness ==
    /\ Len(tasks) = 3
    /\ now = 2
    /\ \A i \in 1..3 : tasks[i].created = 2 /\ tasks[i].queue = "receive"
    /\ "authed_as" \in DOMAIN tasks[1]
    /\ "authed_as" \notin DOMAIN tasks[2]
    /\ "authed_as" \in DOMAIN tasks[3]
    /\ SameKey(3, 1)
    /\ tasks[3].schedule_time = 2 + PER_USER_TASK_RATE

\* C11: a commit whose repo is in bridged_dids is never put on the commits
\* queue, whatever its record references, and no receive task is ever
\* authed as a DID in bridged_dids.
C11_LoopbackSuppressedAP1 ==
    [][/\ \A frame \in HandledFrames :
            frame.repo \in bridged_dids /\ fh'.min_seq = frame.seq + 1
                /\ FhRecvFrame(frame)
                => commits' = commits
       /\ \A i \in 1..Len(commits') : commits'[i].repo \notin bridged_dids
       /\ \A i \in 1..Len(tasks') :
            tasks'[i].source_protocol = "atproto"
                => tasks'[i].authed_as \notin bridged_dids]_vars

C11_Witness ==
    /\ outcome = "from bridged user"
    /\ fh.head > 0
    /\ bridged_dids # {}

ClaimedRelevant(frame) ==
    /\ \/ frame.action \in {"create", "update", "delete"}
            /\ frame.repo \in atproto_dids
       \/ refs_bridged(frame.record,
                       {"subject", "parent", "root", "embed", "mention"})
    /\ frame.repo \notin bridged_dids

TestedRelevant(frame) ==
    LET record == frame.record
        ours == frame.repo \in atproto_dids
    IN  /\ frame.repo \notin bridged_dids
        /\ IF frame.action = "delete" THEN ours
           ELSE /\ record.type \in SupportedCollections \cup STORE_RECORD_TYPES
                /\ ours => CASE record.subject # NoDid ->
                                    record.subject \in bridged_dids
                             [] record.parent # NoDid \/ record.root # NoDid ->
                                    record.parent \in bridged_dids \cup atproto_dids
                             [] OTHER -> TRUE
                /\ ~ours => \E f \in {"subject", "parent", "embed", "mention"} :
                                record[f] \in bridged_dids

Subscribes == fh.pc = "idle" /\ fh'.pc = "connected"

\* C13 (as the code has it): the first subscribe of a process requests the
\* persisted Cursor.cursor plus one, or no cursor when none is persisted;
\* a later subscribe of the same process requests the cursor the process
\* holds in memory, which is one more than the sequence number of the last
\* frame it read.
C13_SubscribeCursor ==
    [][/\ Subscribes =>
            fh'.url = IF fh.cursor # NotLoaded THEN fh.cursor
                      ELSE IF cursor_db.cursor # NoCursor
                           THEN cursor_db.cursor + 1
                           ELSE NoCursor
       /\ \A frame \in CursorFrames :
            frame.seq # NoSeq /\ FhRecvFrame(frame)
                => fh'.cursor = frame.seq + 1]_vars

C13_Witness ==
    /\ fh.pc = "connected"
    /\ cursor_db.cursor # NoCursor
    /\ fh.url > cursor_db.cursor + 1

\* C13 as stated: every subscribe requests the persisted Cursor.cursor plus
\* one, or no cursor when none is persisted.
C13_AsStated ==
    [][Subscribes =>
          fh'.url = IF cursor_db.cursor # NoCursor THEN cursor_db.cursor + 1
                    ELSE NoCursor]_vars

\* C14: the persisted Cursor.cursor never decreases.
C14_CursorMonotonic == [][cursor_db'.cursor >= cursor_db.cursor]_vars

C14_Witness ==
    /\ cursor_db.updated > 0
    /\ fh.pc = "connected"
    /\ fh.url = cursor_db.cursor + 1
    /\ fh.head >= cursor_db.cursor

\* C15: the Cursor entity is written at most once per STORE_CURSOR_FREQ; a
\* frame read less than STORE_CURSOR_FREQ after the last write leaves it
\* alone, and a frame read more than STORE_CURSOR_FREQ after the last write
\* writes the cursor the frame has advanced the process to.
C15_FlushThrottled ==
    [][/\ cursor_db' # cursor_db =>
            /\ now - cursor_db.updated >= STORE_CURSOR_FREQ
            /\ cursor_db'.updated = now
       /\ \A frame \in CursorFrames :
            frame.seq # NoSeq /\ FhRecvFrame(frame)
                => /\ now - cursor_db.updated < STORE_CURSOR_FREQ
                        => cursor_db' = cursor_db
                   /\ now - cursor_db.updated > STORE_CURSOR_FREQ
                        => cursor_db' = [cursor |-> fh'.cursor, updated |-> now]]_vars

C15_Witness ==
    /\ cursor_db.updated > 0
    /\ now > cursor_db.updated
    /\ fh.cursor # NotLoaded
    /\ fh.cursor > cursor_db.cursor

\* C16: a commit with sequence number N whose decoding raises makes
\* subscribe raise, puts nothing on the commits queue, and the process's
\* next subscribe requests cursor N + 1.
C16_PoisonedCommitSkipped ==
    [][/\ \A frame \in CursorFrames :
            frame.poisoned /\ FhRecvFrame(frame)
                => /\ outcome' = "raised RuntimeError"
                   /\ fh'.pc = "idle"
                   /\ fh'.raised = frame.seq
                   /\ commits' = commits
       /\ Subscribes /\ fh.raised # NoSeq
            => /\ fh'.url = fh.raised + 1
               /\ fh'.min_seq > fh.raised]_vars

C16_Witness ==
    /\ fh.raised # NoSeq
    /\ fh.pc = "idle"
    /\ outcome = "raised RuntimeError"
    /\ cursor_db.cursor < fh.raised

DeleteOps ==
    {op \in Ops : op.action = "delete" /\ op.collection \in SupportedCollections}

HasStoredFollow(op) == \E f \in follows : f.uri = at_uri(op)

ClaimedVerb(op) ==
    IF op.collection = "app.bsky.graph.block" THEN "undo"
    ELSE IF op.collection = "app.bsky.graph.follow" /\ HasStoredFollow(op)
         THEN "stop-following"
    ELSE "delete"

SynthesizedDelete(op) ==
    /\ Len(tasks') = Len(tasks) + 1
    /\ Last(tasks').queue = "receive"
    /\ LET activity == Last(tasks').our_as1
       IN  /\ activity.verb = ClaimedVerb(op)
           /\ activity.id = Append(at_uri(op), ClaimedVerb(op))
           /\ activity.actor = op.repo
           /\ ClaimedVerb(op) = "stop-following" =>
                \E f \in follows : f.uri = at_uri(op) /\ activity.object = f.subject

CreateForCalled == cf'.calls = cf.calls + 1

CopyStatus == IF get_copy(user_copies) = NoDid THEN "none"
              ELSE repos[get_copy(user_copies)].status

\* C18: create_for for a user whose repo exists and is active creates no
\* DID, installs no DNS record, creates no repo, commits nothing, enqueues
\* nothing and leaves the copies of the user and of its profile as they are;
\* copies never holds a copy twice.
C18_CreateForIdempotent ==
    [][/\ CreateForCalled /\ CopyStatus = "active"
            => /\ cf'.pc = "done"
               /\ UNCHANGED <<plc, dns, repos, tasks, user_copies, obj_copies>>
       /\ \A i, j \in 1..Len(user_copies') :
            user_copies'[i] = user_copies'[j] => i = j]_vars

C18_Witness ==
    /\ cf.calls = 2
    /\ cf.pc = "done"
    /\ outcome = "noop"
    /\ get_copy(user_copies) = <<"did:plc:", 1>>
    /\ plc = {<<"did:plc:", 1>>}

Reactivated(did) ==
    /\ cf'.pc = "done"
    /\ repos' = [repos EXCEPT ![did].status = "active"]
    /\ Len(tasks') = Len(tasks) + 1
    /\ Last(tasks').queue = "atproto-commit"
    /\ plc' = plc
    /\ user_copies' = user_copies
    /\ obj_copies' = obj_copies

DnsRecord(did) == [name |-> <<"_atproto.", user_handle, ".">>, did |-> did]

\* C19 (as the code has it): create_for for a user whose repo is inactive
\* but not tombstoned reactivates that repo, enqueues an atproto-commit
\* task and returns without a new DID and without changing the user's
\* copies; it installs the repo's DNS record when the user's handle ends
\* with the bridge's super-domain, and leaves DNS alone otherwise.
C19_Reactivate ==
    [][CreateForCalled /\ CopyStatus \in InactiveStatuses
          => /\ Reactivated(get_copy(user_copies))
             /\ IF user_handle[2] = SUPERDOMAIN
                THEN /\ DnsRecord(get_copy(user_copies)) \in dns'
                     /\ \A r \in dns' : r.name = DnsRecord(NoDid).name
                            => r.did = get_copy(user_copies)
                ELSE dns' = dns]_vars

C19_Witness ==
    /\ outcome = "reactivated"
    /\ cf.pc = "done"
    /\ CopyStatus = "active"
    /\ user_handle[2] # SUPERDOMAIN
    /\ dns = {}

\* C19 as stated: the reactivating call installs the repo's DNS record.
C19_AsStated ==
    [][CreateForCalled /\ CopyStatus \in InactiveStatuses
          => /\ Reactivated(get_copy(user_copies))
             /\ DnsRecord(get_copy(user_copies)) \in dns']_vars

\* C20: a tombstoned repo is never made active again; create_for for a user
\* whose repo is tombstoned goes on to create a DID that did not exist, and
\* a call that succeeds leaves the user with the new DID, whose repo is
\* active, as its only ATProto copy.
C20_TombstonedNotRevived ==
    [][/\ \A did \in ShadowDids :
            repos[did].status = TOMBSTONED => repos'[did].status = TOMBSTONED
       /\ CreateForCalled /\ CopyStatus = TOMBSTONED
            => cf'.pc = "create_plc" /\ repos' = repos /\ plc' = plc
       /\ plc' # plc => cf'.did \notin plc /\ plc' = plc \cup {cf'.did}
       /\ cf.pc = "add_copy" /\ cf'.pc = "done"
            => /\ \A i \in 1..Len(user_copies') :
                    user_copies'[i].protocol = "atproto"
                        => user_copies'[i].uri = cf.did
               /\ get_copy(user_copies') = cf.did
               /\ cf.did # get_copy(user_copies)
               /\ repos'[cf.did].status = "active"]_vars

C20_Witness ==
    /\ outcome = "created"
    /\ cf.pc = "done"
    /\ repos[DidOld].status = TOMBSTONED
    /\ user_copies = <<Target(<<"did:plc:", 1>>, "atproto")>>
    /\ repos[<<"did:plc:", 1>>].status = "active"

\* C21: a create_for call that fails before its final copies update leaves
\* user.copies, in memory and in the datastore, as it was before the call.
C21_FailureLeavesCopies ==
    cf.pc = "failed" => cf.copies = user_copies

SendCalled == snd'.calls = snd.calls + 1

CopiesWith(copies, protocol) ==
    {i \in 1..Len(copies) : copies[i].protocol = protocol}

CreatesRecord(act) ==
    /\ act.verb \notin {"update", "delete", "undo", "stop-following", "flag"}
    /\ ~act.dm

GainsOne(o, protocol) ==
    /\ Len(objects'[o].copies) = Len(objects[o].copies) + 1
    /\ \A i \in 1..Len(objects[o].copies) :
          objects'[o].copies[i] = objects[o].copies[i]
    /\ Last(objects'[o].copies).protocol = protocol
    /\ \A i \in 1..Len(objects[o].copies) :
          objects[o].copies[i] # Last(objects'[o].copies)

\* C22 (as the code has it): an ATProto.send that returns True adds exactly
\* one atproto Target to the base object's copies when it creates a record,
\* and leaves every object's copies as they were when it is an update (whose
\* Target is there already), a delete, an undo, a stop-following, a flag, a
\* DM or the delete of the actor; a Nostr.send that returns True leaves the
\* object with exactly one nostr Target, in place of any it had, and with
\* its other copies; no send touches another object's copies.
C22_SendAddsCopy ==
    [][SendCalled /\ snd'.result = "True" =>
          LET act == snd'.act
          IN  IF act.verb = "Nostr.send"
              THEN /\ Cardinality(CopiesWith(objects'[act.object].copies,
                                             "nostr")) = 1
                   /\ Cardinality(CopiesWith(objects'[act.object].copies,
                                             "atproto"))
                         = Cardinality(CopiesWith(objects[act.object].copies,
                                                  "atproto"))
                   /\ \A o \in ObjIds \ {act.object} : objects'[o] = objects[o]
              ELSE IF CreatesRecord(act)
              THEN /\ GainsOne(act.object, "atproto")
                   /\ \A o \in ObjIds \ {act.object} : objects'[o] = objects[o]
              ELSE \A o \in ObjIds : objects'[o].copies = objects[o].copies]_vars

C22_Witness ==
    /\ snd.calls = 2
    /\ snd.result = "True"
    /\ snd.act.verb = "delete"
    /\ snd.act.object = "note"
    /\ outcome = "committed"
    /\ Len(objects["note"].copies) = 2
    /\ <<"app.bsky.feed.post", 1>> \in repo_records
    /\ <<"app.bsky.feed.post", 0>> \notin repo_records

\* C22 as stated: every send that returns True adds exactly one Target with
\* the destination's label to an object's copies.
C22_AsStated ==
    [][SendCalled /\ snd'.result = "True" =>
          \E o \in ObjIds :
              GainsOne(o, IF snd'.act.verb = "Nostr.send" THEN "nostr"
                          ELSE "atproto")]_vars

SenderDid == get_copy(user_copies)

ConvertedCollection(type) ==
    CASE type = "note" -> "app.bsky.feed.post"
      [] type = "follow" -> "app.bsky.graph.follow"
      [] type = "block" -> "app.bsky.graph.block"
      [] OTHER -> "app.bsky.actor.profile"

FirstCopy(o) ==
    objects[o].copies[CHOOSE i \in CopiesWith(objects[o].copies, "atproto") :
        \A j \in CopiesWith(objects[o].copies, "atproto") : i <= j].uri

\* the stored state of the activity's object that the write cannot go with
Conflict(act, fault) ==
    \/ ~objects[act.object].stored
    \/ CopiesWith(objects[act.object].copies, "atproto") = {}
    \/ FirstCopy(act.object)[2] # SenderDid
    \/ /\ fault # "conversion failed"
       /\ FirstCopy(act.object)[3] # ConvertedCollection(act.type)
    \/ <<FirstCopy(act.object)[3], FirstCopy(act.object)[4]>> \notin repo_records

NothingWritten ==
    /\ repos' = repos
    /\ repo_records' = repo_records
    /\ objects' = objects
    /\ tasks' = tasks

IsDeleteOfActor(act) == act.verb = "delete" /\ act.object = "actor"

\* C24: an ATProto.send for a sender whose shadow repo is deactivated or
\* tombstoned, for every activity other than the delete of the actor itself,
\* returns False, commits no write, changes no copies and leaves the repo's
\* status and the DNS zone as they were.
C24_InactiveRepo ==
    [][/\ SendCalled
       /\ SenderDid # NoDid
       /\ repos[SenderDid].status \in {"deactivated", TOMBSTONED}
       /\ ~IsDeleteOfActor(snd'.act)
       => snd'.result = "False" /\ NothingWritten /\ dns' = dns]_vars

C24_Witness ==
    /\ snd.calls = 1
    /\ snd.act.verb = "post"
    /\ snd.act.dm
    /\ snd.fault = "none"
    /\ SenderDid # NoDid
    /\ repos[SenderDid].status = TOMBSTONED
    /\ outcome = "repo inactive"
    /\ snd.result = "False"

\* C25: an ATProto.send of a delete whose object is the sender's own actor,
\* for a sender whose repo this server hosts, deactivates the repo, removes
\* the DNS record of the handle and returns True; it writes and deletes no
\* record and changes no copies; and it does so whether the repo was active,
\* deactivated or tombstoned.
C25_DeleteActor ==
    [][/\ SendCalled
       /\ IsDeleteOfActor(snd'.act)
       /\ SenderDid # NoDid
       /\ snd'.fault \in {"none", "conversion failed"}
       => /\ snd'.result = "True"
          /\ repos'[SenderDid].status = "deactivated"
          /\ repos'[SenderDid].commits = repos[SenderDid].commits
          /\ \A r \in dns' : r.name # dns_name(user_handle)
          /\ repo_records' = repo_records
          /\ objects' = objects
          /\ user_copies' = user_copies]_vars

C25_Witness ==
    /\ snd.calls = 2
    /\ IsDeleteOfActor(snd.act)
    /\ snd.result = "True"
    /\ outcome = "deactivated"
    /\ SenderDid # NoDid
    /\ repos[SenderDid].status = "deactivated"
    /\ dns = {}
    /\ repo_records = BridgedRecords

\* C26: no call of send ends with an exception.
C26_SendNeverRaises == snd.result # "raised"

ConnectionClosed ==
    {"ConnectionClosedOK on send", "ConnectionClosedOK on recv",
     "ConnectionClosedError"}

OneNostrCopy(o) ==
    /\ Cardinality(CopiesWith(objects'[o].copies, "nostr")) = 1
    /\ \A i \in CopiesWith(objects'[o].copies, "nostr") :
          objects'[o].copies[i].uri = uri_for(Last(snd'.events))
    /\ SelectSeq(objects'[o].copies, IsNotNostr)
          = SelectSeq(objects[o].copies, IsNotNostr)

\* C27: a Nostr.send that returns True leaves the object with exactly one
\* nostr Target, the URI of the event it published, and with its copies of
\* other protocols as they were; a Nostr.send whose connection is closed
\* returns False and leaves every object's copies as they were.
C27_NostrCopies ==
    [][SendCalled /\ snd'.act.verb = "Nostr.send" =>
          /\ snd'.result = "True" => OneNostrCopy(snd'.act.object)
          /\ snd'.fault \in ConnectionClosed =>
                snd'.result = "False" /\ objects' = objects]_vars

\* C28: a Nostr.create_for for a user that has a nostr copy publishes no
\* event and leaves user.copies and every object as they were; for a user
\* without one it appends exactly one nostr Target to user.copies, and it
\* publishes an event, a profile, only if the user's profile object has no
\* nostr copy.
C28_NostrCreateFor ==
    [][SendCalled /\ snd'.act.verb = "Nostr.create_for" =>
          IF CopiesWith(user_copies, "nostr") # {}
          THEN /\ user_copies' = user_copies
               /\ snd'.events = snd.events
               /\ objects' = objects
          ELSE /\ Len(user_copies') = Len(user_copies) + 1
               /\ \A i \in 1..Len(user_copies) : user_copies'[i] = user_copies[i]
               /\ Last(user_copies').protocol = "nostr"
               /\ snd'.events # snd.events =>
                     /\ CopiesWith(objects["profile"].copies, "nostr") = {}
                     /\ snd'.events
                           = Append(snd.events, Last(snd'.events))
                     /\ Last(snd'.events).kind = KIND_PROFILE]_vars

C28_Witness ==
    /\ snd.calls = 2
    /\ snd.act.verb = "Nostr.create_for"
    /\ outcome = "has copy"
    /\ user_copies = <<Target(DidOld, "atproto"), NostrCopy>>
    /\ Len(snd.events) = 1
    /\ CopiesWith(objects["profile"].copies, "nostr") # {}

\* C29: at every moment, every pubkey in nostr_pubkeys and in
\* bridged_pubkeys is the pubkey of a stored user whose status is null.
C29_StatusExcluded ==
    \A pubkey \in nostr_pubkeys \cup bridged_pubkeys :
        \E n \in DOMAIN users :
            /\ hex_pubkey(users[n]) = pubkey
            /\ users[n].status = NoStatus

\* C30: every step that changes nostr_pubkeys, bridged_pubkeys or
\* subscribed_relays is taken while subscribed_relays_lock is held.
C30_MutationsHoldLock ==
    [][\/ nostr_pubkeys' # nostr_pubkeys
       \/ bridged_pubkeys' # bridged_pubkeys
       \/ subscribed_relays' # subscribed_relays
       => subscribed_relays_lock # "free"]_vars

\* subscriber r leaves subscribe() by an exception in this step
SubscribeRaised(r) ==
    /\ sub[r].pc \in {"connect", "recv"}
    /\ sub'[r].pc = "connect"
    /\ sub'[r] # sub[r]

\* C31, as the claim states it: a connection error is followed by a wait of
\* RECONNECT_DELAY and a reconnect, any other exception ends the subscriber.
C31_AsStated ==
    [][\A r \in Relays :
          SubscribeRaised(r) =>
              IF sub'[r].err \in ConnectionErrors
              THEN sub'[r].pc = "connect" /\ sub'[r].slept = RECONNECT_DELAY
              ELSE sub'[r].pc = "exited"]_vars

\* C31, amended: after a connection error the subscriber waits RECONNECT_DELAY
\* and calls subscribe again; after any other exception it calls subscribe
\* again without waiting; no exception ends the subscriber.
C31_SubscriberReconnects ==
    [][\A r \in Relays :
          SubscribeRaised(r) =>
              /\ sub'[r].err \in ConnectionErrors \cup OtherErrors
              /\ sub'[r].pc = "connect"
              /\ sub'[r].err \in ConnectionErrors => sub'[r].slept = RECONNECT_DELAY
              /\ sub'[r].err \in OtherErrors => sub'[r].slept = 0]_vars

C31_Witness ==
    /\ sub[DEFAULT_TARGET].err \in OtherErrors
    /\ sub[DEFAULT_TARGET].slept = 0
    /\ sub[DEFAULT_TARGET].pc = "recv"

\* C32: when enqueuing the receive task for an event fails with anything but
\* the loss of the datastore context, the failure is reported and the
\* subscriber goes on with its receive loop on the same connection; every
\* event the relay delivers there, whatever happened to the earlier ones, is
\* handed to create_task.
C32_CatchAndContinue ==
    [][\A r \in Relays :
          sub'[r].delivered = sub[r].delivered + 1
             => /\ outcome' \in {"enqueued", "reported error", "raised ContextError"}
                /\ outcome' = "enqueued"
                      => /\ Len(tasks') = Len(tasks) + 1
                         /\ tasks'[Len(tasks')].nostr = RelayFeed[r][sub'[r].delivered]
                /\ outcome' = "reported error"
                      => /\ sub'[r].pc = "check"
                         /\ sub'[r].err = sub[r].err
                         /\ sub'[r].sent = sub[r].sent]_vars

C32_Witness ==
    /\ outcome = "reported error"
    /\ sub[DEFAULT_TARGET].pc = "recv"
    /\ sub[DEFAULT_TARGET].err = "none"
    /\ sub[DEFAULT_TARGET].delivered = 1
    /\ Len(sub[DEFAULT_TARGET].sent) = 1

\* the place of a task's event in the feed of relay r, 0 when it is not there
feed_pos(r, task) ==
    IF \E k \in 1..Len(RelayFeed[r]) : RelayFeed[r][k] = task.nostr
    THEN CHOOSE k \in 1..Len(RelayFeed[r]) : RelayFeed[r][k] = task.nostr
    ELSE 0

\* C33: the receive tasks of the events of one relay are in the queue in the
\* order in which that relay delivered the events.
C33_OrderWithinSubscriber ==
    \A r \in FeedRelays : \A i, j \in 1..Len(tasks) :
        (i < j /\ feed_pos(r, tasks[i]) > 0 /\ feed_pos(r, tasks[j]) > 0)
            => feed_pos(r, tasks[i]) < feed_pos(r, tasks[j])

\* the tasks of the two relays interleaved: one of RelayA's before and one
\* after the two of the default relay
C33_Witness ==
    /\ Len(tasks) = 4
    /\ feed_pos(RelayA, tasks[1]) = 1
    /\ feed_pos(DEFAULT_TARGET, tasks[2]) = 1
    /\ feed_pos(DEFAULT_TARGET, tasks[3]) = 2
    /\ feed_pos(RelayA, tasks[4]) = 2

C33_OtherOrder ==
    /\ Len(tasks) = 4
    /\ feed_pos(DEFAULT_TARGET, tasks[1]) = 1
    /\ feed_pos(RelayA, tasks[2]) = 1

\* C34: a reload_profile that receives no events from the relay leaves the
\* user's valid_nip05, obj_key and relays as they were.
C34_NoEventsNoChange ==
    [][\A name \in DOMAIN users :
          (outcome' = "reload_profile, no events" /\ users'[name] # users[name])
              => /\ users'[name].valid_nip05 = users[name].valid_nip05
                 /\ users'[name].obj_key = users[name].obj_key
                 /\ users'[name].relays = users[name].relays]_vars

\* the zone's _atproto TXT records of a handle
records_of(hdl) == {r \in dns : r.name = dns_name(hdl)}

C36_ConcurrentCreateOnce ==
    ("other" \in DOMAIN cf /\ cf.pc = "done" /\ cf.other.pc = "done")
        => /\ Cardinality(CopiesWith(user_copies, "atproto")) = 1
           /\ Cardinality(plc) = 1
           /\ Cardinality({d \in ShadowDids : repos[d].status # "none"}) = 1
           /\ Cardinality(dns) <= 1

\* C37: no event is skipped across a restart.  When frames up to sequence
\* number N have been processed and the stored cursor covers them, the first
\* subscription of the next process requests a cursor no greater than N + 1, so
\* that the relay's stream resumes with frame N + 1.
C37_NoSkipAcrossRestart ==
    [][(/\ Subscribes
        /\ fh.cursor = NotLoaded
        /\ fh.head > 0
        /\ cursor_db.cursor >= fh.head)
          => /\ fh'.url <= fh.head + 1
             /\ fh'.min_seq <= fh.head + 1]_vars

\* C38: Nostr.send returns True and records a nostr copy on the object only
\* when the relay answers the EVENT with an OK that accepts it; after an OK
\* that rejects it, or another message, it returns False and the object's
\* copies are as before.
C38_OnlyAcceptedIsSent ==
    [][(SendCalled /\ snd'.act.verb = "Nostr.send")
          => /\ snd'.result = "True" => snd'.fault = "OK"
             /\ objects' # objects => snd'.fault = "OK"
             /\ snd'.fault \in OtherResponses
                   => snd'.result = "False" /\ objects' = objects]_vars

\* C39: a Nostr.create_for call that leaves the user with a nostr copy leaves
\* the user's profile object with one too (the profile has been published);
\* and a call for a user whose earlier call added the copy but did not publish
\* the profile publishes it.
C39_CopyOnlyWithProfile ==
    [][(SendCalled /\ snd'.act.verb = "Nostr.create_for")
          => /\ (CopiesWith(user_copies, "nostr") = {}
                 /\ CopiesWith(user_copies', "nostr") # {})
                   => CopiesWith(objects'["profile"].copies, "nostr") # {}
             /\ (snd.act.verb = "Nostr.create_for"
                 /\ CopiesWith(user_copies, "nostr") # {}
                 /\ objects["profile"].stored
                 /\ CopiesWith(objects["profile"].copies, "nostr") = {})
                   => snd'.events # snd.events]_vars

\* the second half alone
C39_LaterCallPublishes ==
    [][(/\ SendCalled
        /\ snd'.act.verb = "Nostr.create_for"
        /\ snd.act.verb = "Nostr.create_for"
        /\ CopiesWith(user_copies, "nostr") # {}
        /\ objects["profile"].stored
        /\ CopiesWith(objects["profile"].copies, "nostr") = {})
          => snd'.events # snd.events]_vars

\* subscriber r has sent a REQ whose filters hold the pubkey
InReq(r, pubkey) ==
    \E i \in 1..Len(sub[r].sent) :
        /\ sub[r].sent[i].type = "REQ"
        /\ \/ pubkey \in sub[r].sent[i].filters[1].p
           \/ pubkey \in sub[r].sent[i].filters[2].authors

AllPubkeys == {hex_pubkey(UserCatalog[n]) : n \in DOMAIN UserCatalog}

\* C40: under fair scheduling of the loader and the subscribers, every pubkey
\* that is in nostr_pubkeys or bridged_pubkeys is eventually in a REQ sent by
\* each subscriber, wherever the loader's addition falls between the
\* subscriber's size snapshot, its REQ and its size check.
C40_FilterUpdated ==
    \A pubkey \in AllPubkeys : \A r \in FeedRelays :
        (pubkey \in nostr_pubkeys \cup bridged_pubkeys) ~> InReq(r, pubkey)

\* the new user's pubkey went out in a second REQ, after a CLOSE
C40_Witness ==
    /\ Len(sub[RelayA].sent) = 3
    /\ sub[RelayA].sent[2].type = "CLOSE"
    /\ \E pubkey \in nostr_pubkeys \cup bridged_pubkeys :
          /\ pubkey \notin sub[RelayA].sent[1].filters[1].p
          /\ pubkey \notin sub[RelayA].sent[1].filters[2].authors
          /\ InReq(RelayA, pubkey)

====
